---- MODULE Spec2Model ----
(***************************************************************************)
(* A model of the Morning-update news pipeline (src/app).                   *)
(*                                                                         *)
(* Text is a sequence of one-character strings.  A naive datetime is a     *)
(* number of hours since an epoch; an aware datetime carries its UTC       *)
(* offset in hours.  The stages are modelled as separate specifications:   *)
(*   SpecFetch  fetch_feeds      SpecScore  score_items                    *)
(*   SpecSumm   summarize_items and generate_morning_intro                 *)
(*   SpecClean  clean_for_text / clean_for_tts                             *)
(*   SpecNotion find_or_create_daily_page (src/app/notion_utils.py)        *)
(*   SpecMarkdown append_markdown    SpecPublish the publishing step       *)
(*   SpecMain   main (src/app/main.py)                                     *)
(***************************************************************************)
EXTENDS Integers, Sequences, FiniteSets, TLC

VARIABLES
    f_pc,        \* fetch_feeds: position ("fetch", "entries", "done", "idle")
    f_sec,       \* fetch_feeds: index of the section being processed
    f_url,       \* fetch_feeds: index of the endpoint being processed
    source,      \* fetch_feeds: source label of the feed being read
    dt,          \* fetch_feeds: the local dt of the entry loop
    items,       \* fetch_feeds: the local list items of the current section
    collected,   \* fetch_feeds: per finished section, items as it was de-duplicated
    result,      \* fetch_feeds: the returned mapping, section -> list
    f_failed,    \* fetch_feeds: the endpoints logged as "Failed to fetch feed"
    s_pc,        \* score_items: position ("loop", "done", "idle")
    s_items,     \* score_items: the argument items
    s_idx,       \* score_items: loop index (number of items handled)
    scored,      \* score_items: the local list scored / the returned list
    s_requests,  \* score_items: number of chat requests issued
    s_replies,   \* score_items: what each request got, in request order
    m_pc,        \* summarize_items: position ("call", "done", "idle")
    m_section,   \* summarize_items: section_name
    m_items,     \* summarize_items: items
    m_max,       \* summarize_items: max_items
    m_requests,  \* summarize_items: number of generation requests issued
    m_user,      \* summarize_items: bullet lines of the request sent
    m_out,       \* summarize_items: returned text, as a sequence of lines
    c_pc,        \* cleaning: position ("input", "once", "twice", "idle")
    c_fn,        \* cleaning: which transform ("text" or "tts")
    c_in,        \* cleaning: input text
    c_once,      \* cleaning: fn(input)
    c_twice,     \* cleaning: fn(fn(input))
    g_pc,        \* generate_morning_intro: position ("call", "done", "idle")
    g_summary,   \* generate_morning_intro: sections_summary, in insertion order
    g_requests,  \* generate_morning_intro: number of generation requests issued
    g_out,       \* generate_morning_intro: returned text, as a sequence of parts
    n_pc,        \* workspace: position ("run", "idle")
    n_pages,     \* workspace: the pages of the collection, in creation order
    n_calls,     \* workspace: the requests the collection received, with outcome
    n_results,   \* find_or_create_daily_page: what each call returned or raised
    a_pc,        \* publishing: position ("find", "audio", "markdown", "done", "idle")
    a_run,       \* publishing: number of the run under way
    a_page,      \* publishing: the page id the run works on
    md_text,     \* append_markdown: the argument md_text
    page_content, \* workspace: the blocks of each page, by page id
    a_log,       \* workspace: the blocks stored by each append request, in order
    p_pc,        \* main: position in the pipeline
    p_env,       \* main: the process environment
    config,      \* main: what validate_environment returned
    p_calls,     \* main: the calls made to collaborators, with their outcome
    scored_sections,     \* main: section -> scored items, in insertion order
    p_idx,               \* main: number of sections the summary loop has handled
    markdown_sections,   \* main: the blocks of the brief
    section_audio_urls,  \* main: sections that have an audio URL, in insertion order
    intro_audio_url,     \* main: "url" or "None"
    page_id,             \* main: the page the publish phase works on
    p_exit               \* main: exit status (-1 while running)

fetchVars == <<f_pc, f_sec, f_url, source, dt, items, collected, result, f_failed>>
scoreVars == <<s_pc, s_items, s_idx, scored, s_requests, s_replies>>
summVars  == <<m_pc, m_section, m_items, m_max, m_requests, m_user, m_out>>
cleanVars == <<c_pc, c_fn, c_in, c_once, c_twice>>
introVars == <<g_pc, g_summary, g_requests, g_out>>
publishVars == <<a_pc, a_run, a_page, md_text, page_content, a_log>>
notionVars == <<n_pc, n_pages, n_calls, n_results, publishVars>>
mainVars == <<p_pc, p_env, config, p_calls, scored_sections, p_idx, markdown_sections,
              section_audio_urls, intro_audio_url, page_id, p_exit>>
vars == <<fetchVars, scoreVars, summVars, cleanVars, introVars, notionVars, mainVars>>

IdleFetch ==
    /\ f_pc = "idle" /\ f_sec = 0 /\ f_url = 0 /\ source = <<>> /\ dt = 0
    /\ items = <<>> /\ collected = <<>> /\ result = <<>> /\ f_failed = {}
IdleScore ==
    /\ s_pc = "idle" /\ s_items = <<>> /\ s_idx = 0 /\ scored = <<>> /\ s_requests = 0
    /\ s_replies = <<>>
IdleSumm ==
    /\ m_pc = "idle" /\ m_section = <<>> /\ m_items = <<>> /\ m_max = 0
    /\ m_requests = 0 /\ m_user = <<>> /\ m_out = <<>>
IdleClean ==
    /\ c_pc = "idle" /\ c_fn = "text" /\ c_in = <<>> /\ c_once = <<>> /\ c_twice = <<>>
IdleIntro ==
    /\ g_pc = "idle" /\ g_summary = <<>> /\ g_requests = 0 /\ g_out = <<>>
IdlePublish ==
    /\ a_pc = "idle" /\ a_run = 0 /\ a_page = 0 /\ md_text = <<>> /\ page_content = <<>>
    /\ a_log = <<>>
IdleNotion ==
    /\ n_pc = "idle" /\ n_pages = <<>> /\ n_calls = <<>> /\ n_results = <<>>
    /\ IdlePublish
IdleMain ==
    /\ p_pc = "idle" /\ p_env = <<>> /\ config = <<>> /\ p_calls = <<>>
    /\ scored_sections = <<>> /\ p_idx = 0 /\ markdown_sections = <<>>
    /\ section_audio_urls = <<>> /\ intro_audio_url = "None" /\ page_id = 0
    /\ p_exit = -1

(***************************************************************************)
(* Text helpers                                                            *)
(***************************************************************************)
\* Whitespace of str.strip(), str.isspace() and \s of a str pattern; a
\* character that has no escape here is written by its Python escape
IsSpace(c) ==
    c \in { " ", "\t", "\n", "\r", "\f", "\\x0b", "\\x1c", "\\x1d", "\\x1e", "\\x1f",
            "\\x85", "\\xa0", "\\u1680", "\\u2000", "\\u2001", "\\u2002", "\\u2003",
            "\\u2004", "\\u2005", "\\u2006", "\\u2007", "\\u2008", "\\u2009", "\\u200a",
            "\\u2028", "\\u2029", "\\u202f", "\\u205f", "\\u3000" }

RECURSIVE LStrip(_)
LStrip(s) == IF s # <<>> /\ IsSpace(Head(s)) THEN LStrip(Tail(s)) ELSE s

RECURSIVE RStrip(_)
RStrip(s) ==
    IF s # <<>> /\ IsSpace(s[Len(s)]) THEN RStrip(SubSeq(s, 1, Len(s) - 1)) ELSE s

\* str.strip()
Strip(s) == RStrip(LStrip(s))

\* Cased letters, and str.upper() / str.lower() of one character
LowerLetters == <<"a", "b", "c", "d", "e", "f", "g", "h", "i", "j", "k", "l", "m", "n", "o", "p", "q", "r", "s", "t", "u", "v", "w", "x", "y", "z">>
UpperLetters == <<"A", "B", "C", "D", "E", "F", "G", "H", "I", "J", "K", "L", "M", "N", "O", "P", "Q", "R", "S", "T", "U", "V", "W", "X", "Y", "Z">>
IsLower(c) == \E i \in 1..Len(LowerLetters) : LowerLetters[i] = c
IsUpper(c) == \E i \in 1..Len(UpperLetters) : UpperLetters[i] = c
IsLetter(c) == IsLower(c) \/ IsUpper(c)

\* The characters beyond ASCII the model knows: U+0080 to U+024F (the Latin
\* blocks), U+1E9E, U+212A and every decimal digit; such a character is
\* written by its Python escape.  Other characters are outside the model.

\* Decimal digits (category Nd) beyond 0-9
NonAsciiDigits ==
    {
      "\\u0660", "\\u0661", "\\u0662", "\\u0663", "\\u0664", "\\u0665", "\\u0666", "\\u0667",
      "\\u0668", "\\u0669", "\\u06f0", "\\u06f1", "\\u06f2", "\\u06f3", "\\u06f4", "\\u06f5",
      "\\u06f6", "\\u06f7", "\\u06f8", "\\u06f9", "\\u07c0", "\\u07c1", "\\u07c2", "\\u07c3",
      "\\u07c4", "\\u07c5", "\\u07c6", "\\u07c7", "\\u07c8", "\\u07c9", "\\u0966", "\\u0967",
      "\\u0968", "\\u0969", "\\u096a", "\\u096b", "\\u096c", "\\u096d", "\\u096e", "\\u096f",
      "\\u09e6", "\\u09e7", "\\u09e8", "\\u09e9", "\\u09ea", "\\u09eb", "\\u09ec", "\\u09ed",
      "\\u09ee", "\\u09ef", "\\u0a66", "\\u0a67", "\\u0a68", "\\u0a69", "\\u0a6a", "\\u0a6b",
      "\\u0a6c", "\\u0a6d", "\\u0a6e", "\\u0a6f", "\\u0ae6", "\\u0ae7", "\\u0ae8", "\\u0ae9",
      "\\u0aea", "\\u0aeb", "\\u0aec", "\\u0aed", "\\u0aee", "\\u0aef", "\\u0b66", "\\u0b67",
      "\\u0b68", "\\u0b69", "\\u0b6a", "\\u0b6b", "\\u0b6c", "\\u0b6d", "\\u0b6e", "\\u0b6f",
      "\\u0be6", "\\u0be7", "\\u0be8", "\\u0be9", "\\u0bea", "\\u0beb", "\\u0bec", "\\u0bed",
      "\\u0bee", "\\u0bef", "\\u0c66", "\\u0c67", "\\u0c68", "\\u0c69", "\\u0c6a", "\\u0c6b",
      "\\u0c6c", "\\u0c6d", "\\u0c6e", "\\u0c6f", "\\u0ce6", "\\u0ce7", "\\u0ce8", "\\u0ce9",
      "\\u0cea", "\\u0ceb", "\\u0cec", "\\u0ced", "\\u0cee", "\\u0cef", "\\u0d66", "\\u0d67",
      "\\u0d68", "\\u0d69", "\\u0d6a", "\\u0d6b", "\\u0d6c", "\\u0d6d", "\\u0d6e", "\\u0d6f",
      "\\u0de6", "\\u0de7", "\\u0de8", "\\u0de9", "\\u0dea", "\\u0deb", "\\u0dec", "\\u0ded",
      "\\u0dee", "\\u0def", "\\u0e50", "\\u0e51", "\\u0e52", "\\u0e53", "\\u0e54", "\\u0e55",
      "\\u0e56", "\\u0e57", "\\u0e58", "\\u0e59", "\\u0ed0", "\\u0ed1", "\\u0ed2", "\\u0ed3",
      "\\u0ed4", "\\u0ed5", "\\u0ed6", "\\u0ed7", "\\u0ed8", "\\u0ed9", "\\u0f20", "\\u0f21",
      "\\u0f22", "\\u0f23", "\\u0f24", "\\u0f25", "\\u0f26", "\\u0f27", "\\u0f28", "\\u0f29",
      "\\u1040", "\\u1041", "\\u1042", "\\u1043", "\\u1044", "\\u1045", "\\u1046", "\\u1047",
      "\\u1048", "\\u1049", "\\u1090", "\\u1091", "\\u1092", "\\u1093", "\\u1094", "\\u1095",
      "\\u1096", "\\u1097", "\\u1098", "\\u1099", "\\u17e0", "\\u17e1", "\\u17e2", "\\u17e3",
      "\\u17e4", "\\u17e5", "\\u17e6", "\\u17e7", "\\u17e8", "\\u17e9", "\\u1810", "\\u1811",
      "\\u1812", "\\u1813", "\\u1814", "\\u1815", "\\u1816", "\\u1817", "\\u1818", "\\u1819",
      "\\u1946", "\\u1947", "\\u1948", "\\u1949", "\\u194a", "\\u194b", "\\u194c", "\\u194d",
      "\\u194e", "\\u194f", "\\u19d0", "\\u19d1", "\\u19d2", "\\u19d3", "\\u19d4", "\\u19d5",
      "\\u19d6", "\\u19d7", "\\u19d8", "\\u19d9", "\\u1a80", "\\u1a81", "\\u1a82", "\\u1a83",
      "\\u1a84", "\\u1a85", "\\u1a86", "\\u1a87", "\\u1a88", "\\u1a89", "\\u1a90", "\\u1a91",
      "\\u1a92", "\\u1a93", "\\u1a94", "\\u1a95", "\\u1a96", "\\u1a97", "\\u1a98", "\\u1a99",
      "\\u1b50", "\\u1b51", "\\u1b52", "\\u1b53", "\\u1b54", "\\u1b55", "\\u1b56", "\\u1b57",
      "\\u1b58", "\\u1b59", "\\u1bb0", "\\u1bb1", "\\u1bb2", "\\u1bb3", "\\u1bb4", "\\u1bb5",
      "\\u1bb6", "\\u1bb7", "\\u1bb8", "\\u1bb9", "\\u1c40", "\\u1c41", "\\u1c42", "\\u1c43",
      "\\u1c44", "\\u1c45", "\\u1c46", "\\u1c47", "\\u1c48", "\\u1c49", "\\u1c50", "\\u1c51",
      "\\u1c52", "\\u1c53", "\\u1c54", "\\u1c55", "\\u1c56", "\\u1c57", "\\u1c58", "\\u1c59",
      "\\ua620", "\\ua621", "\\ua622", "\\ua623", "\\ua624", "\\ua625", "\\ua626", "\\ua627",
      "\\ua628", "\\ua629", "\\ua8d0", "\\ua8d1", "\\ua8d2", "\\ua8d3", "\\ua8d4", "\\ua8d5",
      "\\ua8d6", "\\ua8d7", "\\ua8d8", "\\ua8d9", "\\ua900", "\\ua901", "\\ua902", "\\ua903",
      "\\ua904", "\\ua905", "\\ua906", "\\ua907", "\\ua908", "\\ua909", "\\ua9d0", "\\ua9d1",
      "\\ua9d2", "\\ua9d3", "\\ua9d4", "\\ua9d5", "\\ua9d6", "\\ua9d7", "\\ua9d8", "\\ua9d9",
      "\\ua9f0", "\\ua9f1", "\\ua9f2", "\\ua9f3", "\\ua9f4", "\\ua9f5", "\\ua9f6", "\\ua9f7",
      "\\ua9f8", "\\ua9f9", "\\uaa50", "\\uaa51", "\\uaa52", "\\uaa53", "\\uaa54", "\\uaa55",
      "\\uaa56", "\\uaa57", "\\uaa58", "\\uaa59", "\\uabf0", "\\uabf1", "\\uabf2", "\\uabf3",
      "\\uabf4", "\\uabf5", "\\uabf6", "\\uabf7", "\\uabf8", "\\uabf9", "\\uff10", "\\uff11",
      "\\uff12", "\\uff13", "\\uff14", "\\uff15", "\\uff16", "\\uff17", "\\uff18", "\\uff19",
      "\\U000104a0", "\\U000104a1", "\\U000104a2", "\\U000104a3", "\\U000104a4", "\\U000104a5",
      "\\U000104a6", "\\U000104a7", "\\U000104a8", "\\U000104a9", "\\U00010d30", "\\U00010d31",
      "\\U00010d32", "\\U00010d33", "\\U00010d34", "\\U00010d35", "\\U00010d36", "\\U00010d37",
      "\\U00010d38", "\\U00010d39", "\\U00011066", "\\U00011067", "\\U00011068", "\\U00011069",
      "\\U0001106a", "\\U0001106b", "\\U0001106c", "\\U0001106d", "\\U0001106e", "\\U0001106f",
      "\\U000110f0", "\\U000110f1", "\\U000110f2", "\\U000110f3", "\\U000110f4", "\\U000110f5",
      "\\U000110f6", "\\U000110f7", "\\U000110f8", "\\U000110f9", "\\U00011136", "\\U00011137",
      "\\U00011138", "\\U00011139", "\\U0001113a", "\\U0001113b", "\\U0001113c", "\\U0001113d",
      "\\U0001113e", "\\U0001113f", "\\U000111d0", "\\U000111d1", "\\U000111d2", "\\U000111d3",
      "\\U000111d4", "\\U000111d5", "\\U000111d6", "\\U000111d7", "\\U000111d8", "\\U000111d9",
      "\\U000112f0", "\\U000112f1", "\\U000112f2", "\\U000112f3", "\\U000112f4", "\\U000112f5",
      "\\U000112f6", "\\U000112f7", "\\U000112f8", "\\U000112f9", "\\U00011450", "\\U00011451",
      "\\U00011452", "\\U00011453", "\\U00011454", "\\U00011455", "\\U00011456", "\\U00011457",
      "\\U00011458", "\\U00011459", "\\U000114d0", "\\U000114d1", "\\U000114d2", "\\U000114d3",
      "\\U000114d4", "\\U000114d5", "\\U000114d6", "\\U000114d7", "\\U000114d8", "\\U000114d9",
      "\\U00011650", "\\U00011651", "\\U00011652", "\\U00011653", "\\U00011654", "\\U00011655",
      "\\U00011656", "\\U00011657", "\\U00011658", "\\U00011659", "\\U000116c0", "\\U000116c1",
      "\\U000116c2", "\\U000116c3", "\\U000116c4", "\\U000116c5", "\\U000116c6", "\\U000116c7",
      "\\U000116c8", "\\U000116c9", "\\U00011730", "\\U00011731", "\\U00011732", "\\U00011733",
      "\\U00011734", "\\U00011735", "\\U00011736", "\\U00011737", "\\U00011738", "\\U00011739",
      "\\U000118e0", "\\U000118e1", "\\U000118e2", "\\U000118e3", "\\U000118e4", "\\U000118e5",
      "\\U000118e6", "\\U000118e7", "\\U000118e8", "\\U000118e9", "\\U00011950", "\\U00011951",
      "\\U00011952", "\\U00011953", "\\U00011954", "\\U00011955", "\\U00011956", "\\U00011957",
      "\\U00011958", "\\U00011959", "\\U00011c50", "\\U00011c51", "\\U00011c52", "\\U00011c53",
      "\\U00011c54", "\\U00011c55", "\\U00011c56", "\\U00011c57", "\\U00011c58", "\\U00011c59",
      "\\U00011d50", "\\U00011d51", "\\U00011d52", "\\U00011d53", "\\U00011d54", "\\U00011d55",
      "\\U00011d56", "\\U00011d57", "\\U00011d58", "\\U00011d59", "\\U00011da0", "\\U00011da1",
      "\\U00011da2", "\\U00011da3", "\\U00011da4", "\\U00011da5", "\\U00011da6", "\\U00011da7",
      "\\U00011da8", "\\U00011da9", "\\U00016a60", "\\U00016a61", "\\U00016a62", "\\U00016a63",
      "\\U00016a64", "\\U00016a65", "\\U00016a66", "\\U00016a67", "\\U00016a68", "\\U00016a69",
      "\\U00016ac0", "\\U00016ac1", "\\U00016ac2", "\\U00016ac3", "\\U00016ac4", "\\U00016ac5",
      "\\U00016ac6", "\\U00016ac7", "\\U00016ac8", "\\U00016ac9", "\\U00016b50", "\\U00016b51",
      "\\U00016b52", "\\U00016b53", "\\U00016b54", "\\U00016b55", "\\U00016b56", "\\U00016b57",
      "\\U00016b58", "\\U00016b59", "\\U0001d7ce", "\\U0001d7cf", "\\U0001d7d0", "\\U0001d7d1",
      "\\U0001d7d2", "\\U0001d7d3", "\\U0001d7d4", "\\U0001d7d5", "\\U0001d7d6", "\\U0001d7d7",
      "\\U0001d7d8", "\\U0001d7d9", "\\U0001d7da", "\\U0001d7db", "\\U0001d7dc", "\\U0001d7dd",
      "\\U0001d7de", "\\U0001d7df", "\\U0001d7e0", "\\U0001d7e1", "\\U0001d7e2", "\\U0001d7e3",
      "\\U0001d7e4", "\\U0001d7e5", "\\U0001d7e6", "\\U0001d7e7", "\\U0001d7e8", "\\U0001d7e9",
      "\\U0001d7ea", "\\U0001d7eb", "\\U0001d7ec", "\\U0001d7ed", "\\U0001d7ee", "\\U0001d7ef",
      "\\U0001d7f0", "\\U0001d7f1", "\\U0001d7f2", "\\U0001d7f3", "\\U0001d7f4", "\\U0001d7f5",
      "\\U0001d7f6", "\\U0001d7f7", "\\U0001d7f8", "\\U0001d7f9", "\\U0001d7fa", "\\U0001d7fb",
      "\\U0001d7fc", "\\U0001d7fd", "\\U0001d7fe", "\\U0001d7ff", "\\U0001e140", "\\U0001e141",
      "\\U0001e142", "\\U0001e143", "\\U0001e144", "\\U0001e145", "\\U0001e146", "\\U0001e147",
      "\\U0001e148", "\\U0001e149", "\\U0001e2f0", "\\U0001e2f1", "\\U0001e2f2", "\\U0001e2f3",
      "\\U0001e2f4", "\\U0001e2f5", "\\U0001e2f6", "\\U0001e2f7", "\\U0001e2f8", "\\U0001e2f9",
      "\\U0001e950", "\\U0001e951", "\\U0001e952", "\\U0001e953", "\\U0001e954", "\\U0001e955",
      "\\U0001e956", "\\U0001e957", "\\U0001e958", "\\U0001e959", "\\U0001fbf0", "\\U0001fbf1",
      "\\U0001fbf2", "\\U0001fbf3", "\\U0001fbf4", "\\U0001fbf5", "\\U0001fbf6", "\\U0001fbf7",
      "\\U0001fbf8", "\\U0001fbf9" }

\* Cased characters beyond A-Z and a-z
NonAsciiCased ==
    {
      "\\xaa", "\\xb5", "\\xba", "\\xc0", "\\xc1", "\\xc2", "\\xc3", "\\xc4", "\\xc5", "\\xc6",
      "\\xc7", "\\xc8", "\\xc9", "\\xca", "\\xcb", "\\xcc", "\\xcd", "\\xce", "\\xcf", "\\xd0",
      "\\xd1", "\\xd2", "\\xd3", "\\xd4", "\\xd5", "\\xd6", "\\xd8", "\\xd9", "\\xda", "\\xdb",
      "\\xdc", "\\xdd", "\\xde", "\\xdf", "\\xe0", "\\xe1", "\\xe2", "\\xe3", "\\xe4", "\\xe5",
      "\\xe6", "\\xe7", "\\xe8", "\\xe9", "\\xea", "\\xeb", "\\xec", "\\xed", "\\xee", "\\xef",
      "\\xf0", "\\xf1", "\\xf2", "\\xf3", "\\xf4", "\\xf5", "\\xf6", "\\xf8", "\\xf9", "\\xfa",
      "\\xfb", "\\xfc", "\\xfd", "\\xfe", "\\xff", "\\u0100", "\\u0101", "\\u0102", "\\u0103",
      "\\u0104", "\\u0105", "\\u0106", "\\u0107", "\\u0108", "\\u0109", "\\u010a", "\\u010b",
      "\\u010c", "\\u010d", "\\u010e", "\\u010f", "\\u0110", "\\u0111", "\\u0112", "\\u0113",
      "\\u0114", "\\u0115", "\\u0116", "\\u0117", "\\u0118", "\\u0119", "\\u011a", "\\u011b",
      "\\u011c", "\\u011d", "\\u011e", "\\u011f", "\\u0120", "\\u0121", "\\u0122", "\\u0123",
      "\\u0124", "\\u0125", "\\u0126", "\\u0127", "\\u0128", "\\u0129", "\\u012a", "\\u012b",
      "\\u012c", "\\u012d", "\\u012e", "\\u012f", "\\u0130", "\\u0131", "\\u0132", "\\u0133",
      "\\u0134", "\\u0135", "\\u0136", "\\u0137", "\\u0138", "\\u0139", "\\u013a", "\\u013b",
      "\\u013c", "\\u013d", "\\u013e", "\\u013f", "\\u0140", "\\u0141", "\\u0142", "\\u0143",
      "\\u0144", "\\u0145", "\\u0146", "\\u0147", "\\u0148", "\\u0149", "\\u014a", "\\u014b",
      "\\u014c", "\\u014d", "\\u014e", "\\u014f", "\\u0150", "\\u0151", "\\u0152", "\\u0153",
      "\\u0154", "\\u0155", "\\u0156", "\\u0157", "\\u0158", "\\u0159", "\\u015a", "\\u015b",
      "\\u015c", "\\u015d", "\\u015e", "\\u015f", "\\u0160", "\\u0161", "\\u0162", "\\u0163",
      "\\u0164", "\\u0165", "\\u0166", "\\u0167", "\\u0168", "\\u0169", "\\u016a", "\\u016b",
      "\\u016c", "\\u016d", "\\u016e", "\\u016f", "\\u0170", "\\u0171", "\\u0172", "\\u0173",
      "\\u0174", "\\u0175", "\\u0176", "\\u0177", "\\u0178", "\\u0179", "\\u017a", "\\u017b",
      "\\u017c", "\\u017d", "\\u017e", "\\u017f", "\\u0180", "\\u0181", "\\u0182", "\\u0183",
      "\\u0184", "\\u0185", "\\u0186", "\\u0187", "\\u0188", "\\u0189", "\\u018a", "\\u018b",
      "\\u018c", "\\u018d", "\\u018e", "\\u018f", "\\u0190", "\\u0191", "\\u0192", "\\u0193",
      "\\u0194", "\\u0195", "\\u0196", "\\u0197", "\\u0198", "\\u0199", "\\u019a", "\\u019b",
      "\\u019c", "\\u019d", "\\u019e", "\\u019f", "\\u01a0", "\\u01a1", "\\u01a2", "\\u01a3",
      "\\u01a4", "\\u01a5", "\\u01a6", "\\u01a7", "\\u01a8", "\\u01a9", "\\u01aa", "\\u01ab",
      "\\u01ac", "\\u01ad", "\\u01ae", "\\u01af", "\\u01b0", "\\u01b1", "\\u01b2", "\\u01b3",
      "\\u01b4", "\\u01b5", "\\u01b6", "\\u01b7", "\\u01b8", "\\u01b9", "\\u01ba", "\\u01bc",
      "\\u01bd", "\\u01be", "\\u01bf", "\\u01c4", "\\u01c5", "\\u01c6", "\\u01c7", "\\u01c8",
      "\\u01c9", "\\u01ca", "\\u01cb", "\\u01cc", "\\u01cd", "\\u01ce", "\\u01cf", "\\u01d0",
      "\\u01d1", "\\u01d2", "\\u01d3", "\\u01d4", "\\u01d5", "\\u01d6", "\\u01d7", "\\u01d8",
      "\\u01d9", "\\u01da", "\\u01db", "\\u01dc", "\\u01dd", "\\u01de", "\\u01df", "\\u01e0",
      "\\u01e1", "\\u01e2", "\\u01e3", "\\u01e4", "\\u01e5", "\\u01e6", "\\u01e7", "\\u01e8",
      "\\u01e9", "\\u01ea", "\\u01eb", "\\u01ec", "\\u01ed", "\\u01ee", "\\u01ef", "\\u01f0",
      "\\u01f1", "\\u01f2", "\\u01f3", "\\u01f4", "\\u01f5", "\\u01f6", "\\u01f7", "\\u01f8",
      "\\u01f9", "\\u01fa", "\\u01fb", "\\u01fc", "\\u01fd", "\\u01fe", "\\u01ff", "\\u0200",
      "\\u0201", "\\u0202", "\\u0203", "\\u0204", "\\u0205", "\\u0206", "\\u0207", "\\u0208",
      "\\u0209", "\\u020a", "\\u020b", "\\u020c", "\\u020d", "\\u020e", "\\u020f", "\\u0210",
      "\\u0211", "\\u0212", "\\u0213", "\\u0214", "\\u0215", "\\u0216", "\\u0217", "\\u0218",
      "\\u0219", "\\u021a", "\\u021b", "\\u021c", "\\u021d", "\\u021e", "\\u021f", "\\u0220",
      "\\u0221", "\\u0222", "\\u0223", "\\u0224", "\\u0225", "\\u0226", "\\u0227", "\\u0228",
      "\\u0229", "\\u022a", "\\u022b", "\\u022c", "\\u022d", "\\u022e", "\\u022f", "\\u0230",
      "\\u0231", "\\u0232", "\\u0233", "\\u0234", "\\u0235", "\\u0236", "\\u0237", "\\u0238",
      "\\u0239", "\\u023a", "\\u023b", "\\u023c", "\\u023d", "\\u023e", "\\u023f", "\\u0240",
      "\\u0241", "\\u0242", "\\u0243", "\\u0244", "\\u0245", "\\u0246", "\\u0247", "\\u0248",
      "\\u0249", "\\u024a", "\\u024b", "\\u024c", "\\u024d", "\\u024e", "\\u024f", "\\u1e9e",
      "\\u212a" }

\* Characters beyond ASCII that \w matches and that are no decimal digit
NonAsciiWord ==
    {
      "\\xaa", "\\xb2", "\\xb3", "\\xb5", "\\xb9", "\\xba", "\\xbc", "\\xbd", "\\xbe", "\\xc0",
      "\\xc1", "\\xc2", "\\xc3", "\\xc4", "\\xc5", "\\xc6", "\\xc7", "\\xc8", "\\xc9", "\\xca",
      "\\xcb", "\\xcc", "\\xcd", "\\xce", "\\xcf", "\\xd0", "\\xd1", "\\xd2", "\\xd3", "\\xd4",
      "\\xd5", "\\xd6", "\\xd8", "\\xd9", "\\xda", "\\xdb", "\\xdc", "\\xdd", "\\xde", "\\xdf",
      "\\xe0", "\\xe1", "\\xe2", "\\xe3", "\\xe4", "\\xe5", "\\xe6", "\\xe7", "\\xe8", "\\xe9",
      "\\xea", "\\xeb", "\\xec", "\\xed", "\\xee", "\\xef", "\\xf0", "\\xf1", "\\xf2", "\\xf3",
      "\\xf4", "\\xf5", "\\xf6", "\\xf8", "\\xf9", "\\xfa", "\\xfb", "\\xfc", "\\xfd", "\\xfe",
      "\\xff", "\\u0100", "\\u0101", "\\u0102", "\\u0103", "\\u0104", "\\u0105", "\\u0106",
      "\\u0107", "\\u0108", "\\u0109", "\\u010a", "\\u010b", "\\u010c", "\\u010d", "\\u010e",
      "\\u010f", "\\u0110", "\\u0111", "\\u0112", "\\u0113", "\\u0114", "\\u0115", "\\u0116",
      "\\u0117", "\\u0118", "\\u0119", "\\u011a", "\\u011b", "\\u011c", "\\u011d", "\\u011e",
      "\\u011f", "\\u0120", "\\u0121", "\\u0122", "\\u0123", "\\u0124", "\\u0125", "\\u0126",
      "\\u0127", "\\u0128", "\\u0129", "\\u012a", "\\u012b", "\\u012c", "\\u012d", "\\u012e",
      "\\u012f", "\\u0130", "\\u0131", "\\u0132", "\\u0133", "\\u0134", "\\u0135", "\\u0136",
      "\\u0137", "\\u0138", "\\u0139", "\\u013a", "\\u013b", "\\u013c", "\\u013d", "\\u013e",
      "\\u013f", "\\u0140", "\\u0141", "\\u0142", "\\u0143", "\\u0144", "\\u0145", "\\u0146",
      "\\u0147", "\\u0148", "\\u0149", "\\u014a", "\\u014b", "\\u014c", "\\u014d", "\\u014e",
      "\\u014f", "\\u0150", "\\u0151", "\\u0152", "\\u0153", "\\u0154", "\\u0155", "\\u0156",
      "\\u0157", "\\u0158", "\\u0159", "\\u015a", "\\u015b", "\\u015c", "\\u015d", "\\u015e",
      "\\u015f", "\\u0160", "\\u0161", "\\u0162", "\\u0163", "\\u0164", "\\u0165", "\\u0166",
      "\\u0167", "\\u0168", "\\u0169", "\\u016a", "\\u016b", "\\u016c", "\\u016d", "\\u016e",
      "\\u016f", "\\u0170", "\\u0171", "\\u0172", "\\u0173", "\\u0174", "\\u0175", "\\u0176",
      "\\u0177", "\\u0178", "\\u0179", "\\u017a", "\\u017b", "\\u017c", "\\u017d", "\\u017e",
      "\\u017f", "\\u0180", "\\u0181", "\\u0182", "\\u0183", "\\u0184", "\\u0185", "\\u0186",
      "\\u0187", "\\u0188", "\\u0189", "\\u018a", "\\u018b", "\\u018c", "\\u018d", "\\u018e",
      "\\u018f", "\\u0190", "\\u0191", "\\u0192", "\\u0193", "\\u0194", "\\u0195", "\\u0196",
      "\\u0197", "\\u0198", "\\u0199", "\\u019a", "\\u019b", "\\u019c", "\\u019d", "\\u019e",
      "\\u019f", "\\u01a0", "\\u01a1", "\\u01a2", "\\u01a3", "\\u01a4", "\\u01a5", "\\u01a6",
      "\\u01a7", "\\u01a8", "\\u01a9", "\\u01aa", "\\u01ab", "\\u01ac", "\\u01ad", "\\u01ae",
      "\\u01af", "\\u01b0", "\\u01b1", "\\u01b2", "\\u01b3", "\\u01b4", "\\u01b5", "\\u01b6",
      "\\u01b7", "\\u01b8", "\\u01b9", "\\u01ba", "\\u01bb", "\\u01bc", "\\u01bd", "\\u01be",
      "\\u01bf", "\\u01c0", "\\u01c1", "\\u01c2", "\\u01c3", "\\u01c4", "\\u01c5", "\\u01c6",
      "\\u01c7", "\\u01c8", "\\u01c9", "\\u01ca", "\\u01cb", "\\u01cc", "\\u01cd", "\\u01ce",
      "\\u01cf", "\\u01d0", "\\u01d1", "\\u01d2", "\\u01d3", "\\u01d4", "\\u01d5", "\\u01d6",
      "\\u01d7", "\\u01d8", "\\u01d9", "\\u01da", "\\u01db", "\\u01dc", "\\u01dd", "\\u01de",
      "\\u01df", "\\u01e0", "\\u01e1", "\\u01e2", "\\u01e3", "\\u01e4", "\\u01e5", "\\u01e6",
      "\\u01e7", "\\u01e8", "\\u01e9", "\\u01ea", "\\u01eb", "\\u01ec", "\\u01ed", "\\u01ee",
      "\\u01ef", "\\u01f0", "\\u01f1", "\\u01f2", "\\u01f3", "\\u01f4", "\\u01f5", "\\u01f6",
      "\\u01f7", "\\u01f8", "\\u01f9", "\\u01fa", "\\u01fb", "\\u01fc", "\\u01fd", "\\u01fe",
      "\\u01ff", "\\u0200", "\\u0201", "\\u0202", "\\u0203", "\\u0204", "\\u0205", "\\u0206",
      "\\u0207", "\\u0208", "\\u0209", "\\u020a", "\\u020b", "\\u020c", "\\u020d", "\\u020e",
      "\\u020f", "\\u0210", "\\u0211", "\\u0212", "\\u0213", "\\u0214", "\\u0215", "\\u0216",
      "\\u0217", "\\u0218", "\\u0219", "\\u021a", "\\u021b", "\\u021c", "\\u021d", "\\u021e",
      "\\u021f", "\\u0220", "\\u0221", "\\u0222", "\\u0223", "\\u0224", "\\u0225", "\\u0226",
      "\\u0227", "\\u0228", "\\u0229", "\\u022a", "\\u022b", "\\u022c", "\\u022d", "\\u022e",
      "\\u022f", "\\u0230", "\\u0231", "\\u0232", "\\u0233", "\\u0234", "\\u0235", "\\u0236",
      "\\u0237", "\\u0238", "\\u0239", "\\u023a", "\\u023b", "\\u023c", "\\u023d", "\\u023e",
      "\\u023f", "\\u0240", "\\u0241", "\\u0242", "\\u0243", "\\u0244", "\\u0245", "\\u0246",
      "\\u0247", "\\u0248", "\\u0249", "\\u024a", "\\u024b", "\\u024c", "\\u024d", "\\u024e",
      "\\u024f", "\\u1e9e", "\\u212a" }

\* The title-case and the lower-case mapping of the characters beyond ASCII
\* that they change, as <<character, mapped text>>
TitlePairs ==
    <<
      <<"\\xb5", <<"\\u039c">>>>, <<"\\xdf", <<"S", "s">>>>, <<"\\xe0", <<"\\xc0">>>>,
      <<"\\xe1", <<"\\xc1">>>>, <<"\\xe2", <<"\\xc2">>>>, <<"\\xe3", <<"\\xc3">>>>,
      <<"\\xe4", <<"\\xc4">>>>, <<"\\xe5", <<"\\xc5">>>>, <<"\\xe6", <<"\\xc6">>>>,
      <<"\\xe7", <<"\\xc7">>>>, <<"\\xe8", <<"\\xc8">>>>, <<"\\xe9", <<"\\xc9">>>>,
      <<"\\xea", <<"\\xca">>>>, <<"\\xeb", <<"\\xcb">>>>, <<"\\xec", <<"\\xcc">>>>,
      <<"\\xed", <<"\\xcd">>>>, <<"\\xee", <<"\\xce">>>>, <<"\\xef", <<"\\xcf">>>>,
      <<"\\xf0", <<"\\xd0">>>>, <<"\\xf1", <<"\\xd1">>>>, <<"\\xf2", <<"\\xd2">>>>,
      <<"\\xf3", <<"\\xd3">>>>, <<"\\xf4", <<"\\xd4">>>>, <<"\\xf5", <<"\\xd5">>>>,
      <<"\\xf6", <<"\\xd6">>>>, <<"\\xf8", <<"\\xd8">>>>, <<"\\xf9", <<"\\xd9">>>>,
      <<"\\xfa", <<"\\xda">>>>, <<"\\xfb", <<"\\xdb">>>>, <<"\\xfc", <<"\\xdc">>>>,
      <<"\\xfd", <<"\\xdd">>>>, <<"\\xfe", <<"\\xde">>>>, <<"\\xff", <<"\\u0178">>>>,
      <<"\\u0101", <<"\\u0100">>>>, <<"\\u0103", <<"\\u0102">>>>, <<"\\u0105", <<"\\u0104">>>>,
      <<"\\u0107", <<"\\u0106">>>>, <<"\\u0109", <<"\\u0108">>>>, <<"\\u010b", <<"\\u010a">>>>,
      <<"\\u010d", <<"\\u010c">>>>, <<"\\u010f", <<"\\u010e">>>>, <<"\\u0111", <<"\\u0110">>>>,
      <<"\\u0113", <<"\\u0112">>>>, <<"\\u0115", <<"\\u0114">>>>, <<"\\u0117", <<"\\u0116">>>>,
      <<"\\u0119", <<"\\u0118">>>>, <<"\\u011b", <<"\\u011a">>>>, <<"\\u011d", <<"\\u011c">>>>,
      <<"\\u011f", <<"\\u011e">>>>, <<"\\u0121", <<"\\u0120">>>>, <<"\\u0123", <<"\\u0122">>>>,
      <<"\\u0125", <<"\\u0124">>>>, <<"\\u0127", <<"\\u0126">>>>, <<"\\u0129", <<"\\u0128">>>>,
      <<"\\u012b", <<"\\u012a">>>>, <<"\\u012d", <<"\\u012c">>>>, <<"\\u012f", <<"\\u012e">>>>,
      <<"\\u0131", <<"I">>>>, <<"\\u0133", <<"\\u0132">>>>, <<"\\u0135", <<"\\u0134">>>>,
      <<"\\u0137", <<"\\u0136">>>>, <<"\\u013a", <<"\\u0139">>>>, <<"\\u013c", <<"\\u013b">>>>,
      <<"\\u013e", <<"\\u013d">>>>, <<"\\u0140", <<"\\u013f">>>>, <<"\\u0142", <<"\\u0141">>>>,
      <<"\\u0144", <<"\\u0143">>>>, <<"\\u0146", <<"\\u0145">>>>, <<"\\u0148", <<"\\u0147">>>>,
      <<"\\u0149", <<"\\u02bc", "N">>>>, <<"\\u014b", <<"\\u014a">>>>,
      <<"\\u014d", <<"\\u014c">>>>, <<"\\u014f", <<"\\u014e">>>>, <<"\\u0151", <<"\\u0150">>>>,
      <<"\\u0153", <<"\\u0152">>>>, <<"\\u0155", <<"\\u0154">>>>, <<"\\u0157", <<"\\u0156">>>>,
      <<"\\u0159", <<"\\u0158">>>>, <<"\\u015b", <<"\\u015a">>>>, <<"\\u015d", <<"\\u015c">>>>,
      <<"\\u015f", <<"\\u015e">>>>, <<"\\u0161", <<"\\u0160">>>>, <<"\\u0163", <<"\\u0162">>>>,
      <<"\\u0165", <<"\\u0164">>>>, <<"\\u0167", <<"\\u0166">>>>, <<"\\u0169", <<"\\u0168">>>>,
      <<"\\u016b", <<"\\u016a">>>>, <<"\\u016d", <<"\\u016c">>>>, <<"\\u016f", <<"\\u016e">>>>,
      <<"\\u0171", <<"\\u0170">>>>, <<"\\u0173", <<"\\u0172">>>>, <<"\\u0175", <<"\\u0174">>>>,
      <<"\\u0177", <<"\\u0176">>>>, <<"\\u017a", <<"\\u0179">>>>, <<"\\u017c", <<"\\u017b">>>>,
      <<"\\u017e", <<"\\u017d">>>>, <<"\\u017f", <<"S">>>>, <<"\\u0180", <<"\\u0243">>>>,
      <<"\\u0183", <<"\\u0182">>>>, <<"\\u0185", <<"\\u0184">>>>, <<"\\u0188", <<"\\u0187">>>>,
      <<"\\u018c", <<"\\u018b">>>>, <<"\\u0192", <<"\\u0191">>>>, <<"\\u0195", <<"\\u01f6">>>>,
      <<"\\u0199", <<"\\u0198">>>>, <<"\\u019a", <<"\\u023d">>>>, <<"\\u019e", <<"\\u0220">>>>,
      <<"\\u01a1", <<"\\u01a0">>>>, <<"\\u01a3", <<"\\u01a2">>>>, <<"\\u01a5", <<"\\u01a4">>>>,
      <<"\\u01a8", <<"\\u01a7">>>>, <<"\\u01ad", <<"\\u01ac">>>>, <<"\\u01b0", <<"\\u01af">>>>,
      <<"\\u01b4", <<"\\u01b3">>>>, <<"\\u01b6", <<"\\u01b5">>>>, <<"\\u01b9", <<"\\u01b8">>>>,
      <<"\\u01bd", <<"\\u01bc">>>>, <<"\\u01bf", <<"\\u01f7">>>>, <<"\\u01c4", <<"\\u01c5">>>>,
      <<"\\u01c6", <<"\\u01c5">>>>, <<"\\u01c7", <<"\\u01c8">>>>, <<"\\u01c9", <<"\\u01c8">>>>,
      <<"\\u01ca", <<"\\u01cb">>>>, <<"\\u01cc", <<"\\u01cb">>>>, <<"\\u01ce", <<"\\u01cd">>>>,
      <<"\\u01d0", <<"\\u01cf">>>>, <<"\\u01d2", <<"\\u01d1">>>>, <<"\\u01d4", <<"\\u01d3">>>>,
      <<"\\u01d6", <<"\\u01d5">>>>, <<"\\u01d8", <<"\\u01d7">>>>, <<"\\u01da", <<"\\u01d9">>>>,
      <<"\\u01dc", <<"\\u01db">>>>, <<"\\u01dd", <<"\\u018e">>>>, <<"\\u01df", <<"\\u01de">>>>,
      <<"\\u01e1", <<"\\u01e0">>>>, <<"\\u01e3", <<"\\u01e2">>>>, <<"\\u01e5", <<"\\u01e4">>>>,
      <<"\\u01e7", <<"\\u01e6">>>>, <<"\\u01e9", <<"\\u01e8">>>>, <<"\\u01eb", <<"\\u01ea">>>>,
      <<"\\u01ed", <<"\\u01ec">>>>, <<"\\u01ef", <<"\\u01ee">>>>,
      <<"\\u01f0", <<"J", "\\u030c">>>>, <<"\\u01f1", <<"\\u01f2">>>>,
      <<"\\u01f3", <<"\\u01f2">>>>, <<"\\u01f5", <<"\\u01f4">>>>, <<"\\u01f9", <<"\\u01f8">>>>,
      <<"\\u01fb", <<"\\u01fa">>>>, <<"\\u01fd", <<"\\u01fc">>>>, <<"\\u01ff", <<"\\u01fe">>>>,
      <<"\\u0201", <<"\\u0200">>>>, <<"\\u0203", <<"\\u0202">>>>, <<"\\u0205", <<"\\u0204">>>>,
      <<"\\u0207", <<"\\u0206">>>>, <<"\\u0209", <<"\\u0208">>>>, <<"\\u020b", <<"\\u020a">>>>,
      <<"\\u020d", <<"\\u020c">>>>, <<"\\u020f", <<"\\u020e">>>>, <<"\\u0211", <<"\\u0210">>>>,
      <<"\\u0213", <<"\\u0212">>>>, <<"\\u0215", <<"\\u0214">>>>, <<"\\u0217", <<"\\u0216">>>>,
      <<"\\u0219", <<"\\u0218">>>>, <<"\\u021b", <<"\\u021a">>>>, <<"\\u021d", <<"\\u021c">>>>,
      <<"\\u021f", <<"\\u021e">>>>, <<"\\u0223", <<"\\u0222">>>>, <<"\\u0225", <<"\\u0224">>>>,
      <<"\\u0227", <<"\\u0226">>>>, <<"\\u0229", <<"\\u0228">>>>, <<"\\u022b", <<"\\u022a">>>>,
      <<"\\u022d", <<"\\u022c">>>>, <<"\\u022f", <<"\\u022e">>>>, <<"\\u0231", <<"\\u0230">>>>,
      <<"\\u0233", <<"\\u0232">>>>, <<"\\u023c", <<"\\u023b">>>>, <<"\\u023f", <<"\\u2c7e">>>>,
      <<"\\u0240", <<"\\u2c7f">>>>, <<"\\u0242", <<"\\u0241">>>>, <<"\\u0247", <<"\\u0246">>>>,
      <<"\\u0249", <<"\\u0248">>>>, <<"\\u024b", <<"\\u024a">>>>, <<"\\u024d", <<"\\u024c">>>>,
      <<"\\u024f", <<"\\u024e">>>> >>

LowerPairs ==
    <<
      <<"\\xc0", <<"\\xe0">>>>, <<"\\xc1", <<"\\xe1">>>>, <<"\\xc2", <<"\\xe2">>>>,
      <<"\\xc3", <<"\\xe3">>>>, <<"\\xc4", <<"\\xe4">>>>, <<"\\xc5", <<"\\xe5">>>>,
      <<"\\xc6", <<"\\xe6">>>>, <<"\\xc7", <<"\\xe7">>>>, <<"\\xc8", <<"\\xe8">>>>,
      <<"\\xc9", <<"\\xe9">>>>, <<"\\xca", <<"\\xea">>>>, <<"\\xcb", <<"\\xeb">>>>,
      <<"\\xcc", <<"\\xec">>>>, <<"\\xcd", <<"\\xed">>>>, <<"\\xce", <<"\\xee">>>>,
      <<"\\xcf", <<"\\xef">>>>, <<"\\xd0", <<"\\xf0">>>>, <<"\\xd1", <<"\\xf1">>>>,
      <<"\\xd2", <<"\\xf2">>>>, <<"\\xd3", <<"\\xf3">>>>, <<"\\xd4", <<"\\xf4">>>>,
      <<"\\xd5", <<"\\xf5">>>>, <<"\\xd6", <<"\\xf6">>>>, <<"\\xd8", <<"\\xf8">>>>,
      <<"\\xd9", <<"\\xf9">>>>, <<"\\xda", <<"\\xfa">>>>, <<"\\xdb", <<"\\xfb">>>>,
      <<"\\xdc", <<"\\xfc">>>>, <<"\\xdd", <<"\\xfd">>>>, <<"\\xde", <<"\\xfe">>>>,
      <<"\\u0100", <<"\\u0101">>>>, <<"\\u0102", <<"\\u0103">>>>, <<"\\u0104", <<"\\u0105">>>>,
      <<"\\u0106", <<"\\u0107">>>>, <<"\\u0108", <<"\\u0109">>>>, <<"\\u010a", <<"\\u010b">>>>,
      <<"\\u010c", <<"\\u010d">>>>, <<"\\u010e", <<"\\u010f">>>>, <<"\\u0110", <<"\\u0111">>>>,
      <<"\\u0112", <<"\\u0113">>>>, <<"\\u0114", <<"\\u0115">>>>, <<"\\u0116", <<"\\u0117">>>>,
      <<"\\u0118", <<"\\u0119">>>>, <<"\\u011a", <<"\\u011b">>>>, <<"\\u011c", <<"\\u011d">>>>,
      <<"\\u011e", <<"\\u011f">>>>, <<"\\u0120", <<"\\u0121">>>>, <<"\\u0122", <<"\\u0123">>>>,
      <<"\\u0124", <<"\\u0125">>>>, <<"\\u0126", <<"\\u0127">>>>, <<"\\u0128", <<"\\u0129">>>>,
      <<"\\u012a", <<"\\u012b">>>>, <<"\\u012c", <<"\\u012d">>>>, <<"\\u012e", <<"\\u012f">>>>,
      <<"\\u0130", <<"i", "\\u0307">>>>, <<"\\u0132", <<"\\u0133">>>>,
      <<"\\u0134", <<"\\u0135">>>>, <<"\\u0136", <<"\\u0137">>>>, <<"\\u0139", <<"\\u013a">>>>,
      <<"\\u013b", <<"\\u013c">>>>, <<"\\u013d", <<"\\u013e">>>>, <<"\\u013f", <<"\\u0140">>>>,
      <<"\\u0141", <<"\\u0142">>>>, <<"\\u0143", <<"\\u0144">>>>, <<"\\u0145", <<"\\u0146">>>>,
      <<"\\u0147", <<"\\u0148">>>>, <<"\\u014a", <<"\\u014b">>>>, <<"\\u014c", <<"\\u014d">>>>,
      <<"\\u014e", <<"\\u014f">>>>, <<"\\u0150", <<"\\u0151">>>>, <<"\\u0152", <<"\\u0153">>>>,
      <<"\\u0154", <<"\\u0155">>>>, <<"\\u0156", <<"\\u0157">>>>, <<"\\u0158", <<"\\u0159">>>>,
      <<"\\u015a", <<"\\u015b">>>>, <<"\\u015c", <<"\\u015d">>>>, <<"\\u015e", <<"\\u015f">>>>,
      <<"\\u0160", <<"\\u0161">>>>, <<"\\u0162", <<"\\u0163">>>>, <<"\\u0164", <<"\\u0165">>>>,
      <<"\\u0166", <<"\\u0167">>>>, <<"\\u0168", <<"\\u0169">>>>, <<"\\u016a", <<"\\u016b">>>>,
      <<"\\u016c", <<"\\u016d">>>>, <<"\\u016e", <<"\\u016f">>>>, <<"\\u0170", <<"\\u0171">>>>,
      <<"\\u0172", <<"\\u0173">>>>, <<"\\u0174", <<"\\u0175">>>>, <<"\\u0176", <<"\\u0177">>>>,
      <<"\\u0178", <<"\\xff">>>>, <<"\\u0179", <<"\\u017a">>>>, <<"\\u017b", <<"\\u017c">>>>,
      <<"\\u017d", <<"\\u017e">>>>, <<"\\u0181", <<"\\u0253">>>>, <<"\\u0182", <<"\\u0183">>>>,
      <<"\\u0184", <<"\\u0185">>>>, <<"\\u0186", <<"\\u0254">>>>, <<"\\u0187", <<"\\u0188">>>>,
      <<"\\u0189", <<"\\u0256">>>>, <<"\\u018a", <<"\\u0257">>>>, <<"\\u018b", <<"\\u018c">>>>,
      <<"\\u018e", <<"\\u01dd">>>>, <<"\\u018f", <<"\\u0259">>>>, <<"\\u0190", <<"\\u025b">>>>,
      <<"\\u0191", <<"\\u0192">>>>, <<"\\u0193", <<"\\u0260">>>>, <<"\\u0194", <<"\\u0263">>>>,
      <<"\\u0196", <<"\\u0269">>>>, <<"\\u0197", <<"\\u0268">>>>, <<"\\u0198", <<"\\u0199">>>>,
      <<"\\u019c", <<"\\u026f">>>>, <<"\\u019d", <<"\\u0272">>>>, <<"\\u019f", <<"\\u0275">>>>,
      <<"\\u01a0", <<"\\u01a1">>>>, <<"\\u01a2", <<"\\u01a3">>>>, <<"\\u01a4", <<"\\u01a5">>>>,
      <<"\\u01a6", <<"\\u0280">>>>, <<"\\u01a7", <<"\\u01a8">>>>, <<"\\u01a9", <<"\\u0283">>>>,
      <<"\\u01ac", <<"\\u01ad">>>>, <<"\\u01ae", <<"\\u0288">>>>, <<"\\u01af", <<"\\u01b0">>>>,
      <<"\\u01b1", <<"\\u028a">>>>, <<"\\u01b2", <<"\\u028b">>>>, <<"\\u01b3", <<"\\u01b4">>>>,
      <<"\\u01b5", <<"\\u01b6">>>>, <<"\\u01b7", <<"\\u0292">>>>, <<"\\u01b8", <<"\\u01b9">>>>,
      <<"\\u01bc", <<"\\u01bd">>>>, <<"\\u01c4", <<"\\u01c6">>>>, <<"\\u01c5", <<"\\u01c6">>>>,
      <<"\\u01c7", <<"\\u01c9">>>>, <<"\\u01c8", <<"\\u01c9">>>>, <<"\\u01ca", <<"\\u01cc">>>>,
      <<"\\u01cb", <<"\\u01cc">>>>, <<"\\u01cd", <<"\\u01ce">>>>, <<"\\u01cf", <<"\\u01d0">>>>,
      <<"\\u01d1", <<"\\u01d2">>>>, <<"\\u01d3", <<"\\u01d4">>>>, <<"\\u01d5", <<"\\u01d6">>>>,
      <<"\\u01d7", <<"\\u01d8">>>>, <<"\\u01d9", <<"\\u01da">>>>, <<"\\u01db", <<"\\u01dc">>>>,
      <<"\\u01de", <<"\\u01df">>>>, <<"\\u01e0", <<"\\u01e1">>>>, <<"\\u01e2", <<"\\u01e3">>>>,
      <<"\\u01e4", <<"\\u01e5">>>>, <<"\\u01e6", <<"\\u01e7">>>>, <<"\\u01e8", <<"\\u01e9">>>>,
      <<"\\u01ea", <<"\\u01eb">>>>, <<"\\u01ec", <<"\\u01ed">>>>, <<"\\u01ee", <<"\\u01ef">>>>,
      <<"\\u01f1", <<"\\u01f3">>>>, <<"\\u01f2", <<"\\u01f3">>>>, <<"\\u01f4", <<"\\u01f5">>>>,
      <<"\\u01f6", <<"\\u0195">>>>, <<"\\u01f7", <<"\\u01bf">>>>, <<"\\u01f8", <<"\\u01f9">>>>,
      <<"\\u01fa", <<"\\u01fb">>>>, <<"\\u01fc", <<"\\u01fd">>>>, <<"\\u01fe", <<"\\u01ff">>>>,
      <<"\\u0200", <<"\\u0201">>>>, <<"\\u0202", <<"\\u0203">>>>, <<"\\u0204", <<"\\u0205">>>>,
      <<"\\u0206", <<"\\u0207">>>>, <<"\\u0208", <<"\\u0209">>>>, <<"\\u020a", <<"\\u020b">>>>,
      <<"\\u020c", <<"\\u020d">>>>, <<"\\u020e", <<"\\u020f">>>>, <<"\\u0210", <<"\\u0211">>>>,
      <<"\\u0212", <<"\\u0213">>>>, <<"\\u0214", <<"\\u0215">>>>, <<"\\u0216", <<"\\u0217">>>>,
      <<"\\u0218", <<"\\u0219">>>>, <<"\\u021a", <<"\\u021b">>>>, <<"\\u021c", <<"\\u021d">>>>,
      <<"\\u021e", <<"\\u021f">>>>, <<"\\u0220", <<"\\u019e">>>>, <<"\\u0222", <<"\\u0223">>>>,
      <<"\\u0224", <<"\\u0225">>>>, <<"\\u0226", <<"\\u0227">>>>, <<"\\u0228", <<"\\u0229">>>>,
      <<"\\u022a", <<"\\u022b">>>>, <<"\\u022c", <<"\\u022d">>>>, <<"\\u022e", <<"\\u022f">>>>,
      <<"\\u0230", <<"\\u0231">>>>, <<"\\u0232", <<"\\u0233">>>>, <<"\\u023a", <<"\\u2c65">>>>,
      <<"\\u023b", <<"\\u023c">>>>, <<"\\u023d", <<"\\u019a">>>>, <<"\\u023e", <<"\\u2c66">>>>,
      <<"\\u0241", <<"\\u0242">>>>, <<"\\u0243", <<"\\u0180">>>>, <<"\\u0244", <<"\\u0289">>>>,
      <<"\\u0245", <<"\\u028c">>>>, <<"\\u0246", <<"\\u0247">>>>, <<"\\u0248", <<"\\u0249">>>>,
      <<"\\u024a", <<"\\u024b">>>>, <<"\\u024c", <<"\\u024d">>>>, <<"\\u024e", <<"\\u024f">>>>,
      <<"\\u1e9e", <<"\\xdf">>>>, <<"\\u212a", <<"k">>>> >>

PairTable(pairs) ==
    [c \in { pairs[i][1] : i \in 1..Len(pairs) } |->
        pairs[CHOOSE i \in 1..Len(pairs) : pairs[i][1] = c][2]]
TitleTable == PairTable(TitlePairs)
LowerTable == PairTable(LowerPairs)

\* The characters beyond ASCII that IGNORECASE lets match an ASCII letter
FoldPairs == << <<"\\u0130", "i">>, <<"\\u0131", "i">>, <<"\\u017f", "s">>, <<"\\u212a", "k">> >>
FoldTable == PairTable(FoldPairs)

\* A cased character, for str.title()
IsCased(c) == IsLetter(c) \/ c \in NonAsciiCased
\* The cased characters of A-Z and a-z
UpperChar(c) ==
    IF IsLower(c) THEN UpperLetters[CHOOSE i \in 1..Len(LowerLetters) : LowerLetters[i] = c]
    ELSE c
LowerChar(c) ==
    IF IsUpper(c) THEN LowerLetters[CHOOSE i \in 1..Len(UpperLetters) : UpperLetters[i] = c]
    ELSE c
\* \d of a regular expression (str pattern): every decimal digit
IsDigit(c) ==
    c \in {"0", "1", "2", "3", "4", "5", "6", "7", "8", "9"} \/ c \in NonAsciiDigits
\* \w of a regular expression (str pattern)
IsWord(c) == IsLetter(c) \/ IsDigit(c) \/ c = "_" \/ c \in NonAsciiWord

\* The title-case and the lower-case text of one character
TitleChar(c) ==
    IF IsLower(c) THEN <<UpperChar(c)>>
    ELSE IF c \in DOMAIN TitleTable THEN TitleTable[c] ELSE <<c>>
LowerStr(c) ==
    IF IsUpper(c) THEN <<LowerChar(c)>>
    ELSE IF c \in DOMAIN LowerTable THEN LowerTable[c] ELSE <<c>>
\* str.lower()
RECURSIVE Lower(_)
Lower(s) == IF s = <<>> THEN <<>> ELSE LowerStr(Head(s)) \o Lower(Tail(s))
\* The ASCII letter a character matches under IGNORECASE, in lower case
FoldChar(c) ==
    IF IsUpper(c) THEN LowerChar(c)
    ELSE IF c \in DOMAIN FoldTable THEN FoldTable[c] ELSE c

\* str.title(): a cased character is title-cased after an uncased one and
\* lower-cased after a cased one
RECURSIVE TitleFrom(_, _, _)
TitleFrom(s, i, prevCased) ==
    IF i > Len(s) THEN <<>>
    ELSE (IF prevCased THEN LowerStr(s[i]) ELSE TitleChar(s[i]))
         \o TitleFrom(s, i + 1, IsCased(s[i]))
Title(s) == TitleFrom(s, 1, FALSE)

\* str.replace(a, b) for single characters
ReplaceChar(s, a, b) == [i \in 1..Len(s) |-> IF s[i] = a THEN b ELSE s[i]]

\* Does the literal lit stand in s at index i (case-sensitive / ignoring case)
MatchLit(s, i, lit) ==
    /\ i + Len(lit) - 1 <= Len(s)
    /\ \A k \in 1..Len(lit) : s[i + k - 1] = lit[k]
MatchLitCI(s, i, lit) ==
    /\ i + Len(lit) - 1 <= Len(s)
    /\ \A k \in 1..Len(lit) : FoldChar(s[i + k - 1]) = FoldChar(lit[k])

\* The first index >= i of s that does not hold a character of the class
\* (Len(s) + 1 when there is none): the end of a greedy run
RECURSIVE SkipSpace(_, _)
SkipSpace(s, i) == IF i <= Len(s) /\ IsSpace(s[i]) THEN SkipSpace(s, i + 1) ELSE i
RECURSIVE SkipBlank(_, _)
SkipBlank(s, i) == IF i <= Len(s) /\ s[i] \in {" ", "\t"} THEN SkipBlank(s, i + 1) ELSE i
RECURSIVE SkipNonSpace(_, _)
SkipNonSpace(s, i) == IF i <= Len(s) /\ ~IsSpace(s[i]) THEN SkipNonSpace(s, i + 1) ELSE i
RECURSIVE SkipUrlBody(_, _)
SkipUrlBody(s, i) ==
    IF i <= Len(s) /\ ~IsSpace(s[i]) /\ s[i] # ")" THEN SkipUrlBody(s, i + 1) ELSE i
RECURSIVE SkipLine(_, _)
SkipLine(s, i) == IF i <= Len(s) /\ s[i] # "\n" THEN SkipLine(s, i + 1) ELSE i
RECURSIVE SkipNewlines(_, _)
SkipNewlines(s, i) == IF i <= Len(s) /\ s[i] = "\n" THEN SkipNewlines(s, i + 1) ELSE i
RECURSIVE SkipAnchor(_, _)
SkipAnchor(s, i) == IF i <= Len(s) /\ s[i] # "]" THEN SkipAnchor(s, i + 1) ELSE i

\* https?:// at index i: the index after it, or 0
SchemeEnd(s, i) ==
    LET p == IF MatchLit(s, i, <<"h", "t", "t", "p">>) /\ MatchLit(s, i + 4, <<"s">>) THEN i + 5 ELSE i + 4
    IN IF MatchLit(s, i, <<"h", "t", "t", "p">>) /\ MatchLit(s, p, <<":", "/", "/">>) THEN p + 3 ELSE 0

\* re.sub(r"https?://[^\s]+", "", s): the match at index i ends before the
\* index returned (0: no match at i)
UrlEnd(s, i) ==
    LET p == SchemeEnd(s, i)
    IN IF p # 0 /\ SkipNonSpace(s, p) > p THEN SkipNonSpace(s, p) ELSE 0
RECURSIVE StripUrlsFrom(_, _)
StripUrlsFrom(s, i) ==
    IF i > Len(s) THEN <<>>
    ELSE IF UrlEnd(s, i) # 0 THEN StripUrlsFrom(s, UrlEnd(s, i))
    ELSE <<s[i]>> \o StripUrlsFrom(s, i + 1)
StripUrls(s) == StripUrlsFrom(s, 1)

(***************************************************************************)
(* fetch_feeds                                                             *)
(***************************************************************************)
MaxEntries == 3                 \* entries kept over one call of fetch_feeds
since_hours == 24
Now == 10 * 24 + 10             \* datetime.now(timezone.utc): day 10, 10:00
cutoff == Now - since_hours
MaxHour == 87649415             \* the hour of datetime.max, 9999-12-31T23:00

\* The sources argument: two sections of DEFAULT_FEEDS in its order (bbc
\* before ai) and their endpoints
SectionOrder == <<"bbc", "ai">>
Sources == [ai |-> <<"u1", "u2">>, bbc |-> <<"u3">>]

\* Raw values of a date field of a feed entry
AbsentField == [kind |-> "absent", t |-> 0, aware |-> FALSE, off |-> 0]
BadDate     == [kind |-> "bad", t |-> 0, aware |-> FALSE, off |-> 0]
Naive(t)    == [kind |-> "ok", t |-> t, aware |-> FALSE, off |-> 0]
Aware(t, o) == [kind |-> "ok", t |-> t, aware |-> TRUE, off |-> o]
NoDate      == [kind |-> "none", t |-> 0, aware |-> FALSE, off |-> 0]

DateCombos ==
    { <<AbsentField, AbsentField>>, <<BadDate, AbsentField>>,
      <<AbsentField, BadDate>>, <<BadDate, BadDate>>,
      <<BadDate, Naive(Now - 1)>>, <<AbsentField, Naive(cutoff)>>,
      <<Naive(cutoff - 1), Naive(Now - 1)>>, <<Naive(cutoff), AbsentField>>,
      <<Naive(Now - 1), BadDate>>,
      <<Aware(cutoff + 1, 2), AbsentField>>, <<Aware(cutoff - 1, -2), AbsentField>>,
      <<Aware(0, 1), AbsentField>>, <<Aware(MaxHour, -1), AbsentField>> }
\* Raw (title, link) pairs: the same pair twice (once padded), the same title
\* with another link, another title with the same link
RawHeads ==
    { << <<"a">>, <<"u">> >>, << <<" ", "a", "\r", "\n">>, <<"u", " ">> >>,
      << <<"a">>, <<"v">> >>, << <<"b">>, <<"u">> >> }
\* parsed.feed.title of each endpoint ("" when the feed carries no title)
FeedTitle == [u1 |-> "Feed", u2 |-> "", u3 |-> ""]

\* The feed entries an endpoint can deliver
Entries ==
    { [title |-> h[1], link |-> h[2], summary |-> "s",
       published |-> dc[1], updated |-> dc[2]] : h \in RawHeads, dc \in DateCombos }

\* parse_date: the first of published, updated that is present and parses
parse_date_defaulting(entry) ==
    IF entry.published.kind = "ok" THEN entry.published
    ELSE IF entry.updated.kind = "ok" THEN entry.updated
    ELSE Naive(Now)
parse_date(entry) ==
    IF entry.published.kind = "ok" THEN entry.published
    ELSE IF entry.updated.kind = "ok" THEN entry.updated
    ELSE NoDate

\* dt.astimezone(timezone.utc).replace(tzinfo=None) for an aware dt
ToNaiveUtc(d) == IF d.aware THEN Naive(d.t - d.off) ELSE d

\* dt.astimezone(timezone.utc) raises OverflowError: the UTC instant of the
\* aware dt lies before datetime.min (hour 0) or after datetime.max
Overflows(d) ==
    d.kind = "ok" /\ d.aware /\ (d.t - d.off < 0 \/ d.t - d.off > MaxHour)

\* datetime.isoformat() of a naive datetime: fixed-width, zero-padded digits
IsoFormat(t) ==
    << (t \div 24) \div 10, (t \div 24) % 10, (t % 24) \div 10, (t % 24) % 10 >>

\* str < str on isoformat strings (lexicographic)
RECURSIVE LexLess(_, _)
LexLess(a, b) ==
    IF b = <<>> THEN FALSE
    ELSE IF a = <<>> THEN TRUE
    ELSE IF Head(a) < Head(b) THEN TRUE
    ELSE IF Head(a) > Head(b) THEN FALSE
    ELSE LexLess(Tail(a), Tail(b))

\* The dict appended to items for entry e with normalised date t
NewsItem(e, t, src) ==
    [title |-> Strip(e.title), url |-> Strip(e.link), summary |-> e.summary,
     published |-> IsoFormat(t), source |-> src]

\* de-dupe by title+url, first occurrence kept
RECURSIVE DedupeByTitle(_, _, _)
DedupeByTitle(its, seen, deduped) ==
    IF its = <<>> THEN deduped
    ELSE LET it == Head(its)
             key == it.title
         IN IF key \in seen THEN DedupeByTitle(Tail(its), seen, deduped)
            ELSE DedupeByTitle(Tail(its), seen \cup {key}, Append(deduped, it))
RECURSIVE Dedupe(_, _, _)
Dedupe(its, seen, deduped) ==
    IF its = <<>> THEN deduped
    ELSE LET it == Head(its)
             key == <<it.title, it.url>>
         IN IF key \in seen THEN Dedupe(Tail(its), seen, deduped)
            ELSE Dedupe(Tail(its), seen \cup {key}, Append(deduped, it))

\* list.sort(key=published, reverse=True): stable, descending
RECURSIVE InsertPublished(_, _)
InsertPublished(sorted, x) ==
    IF sorted = <<>> THEN <<x>>
    ELSE IF LexLess(Head(sorted).published, x.published) THEN <<x>> \o sorted
    ELSE <<Head(sorted)>> \o InsertPublished(Tail(sorted), x)
RECURSIVE SortAscending(_, _)
SortAscending(its, sorted) ==
    IF its = <<>> THEN sorted
    ELSE LET x == Head(its)
             lo == SelectSeq(sorted, LAMBDA y : ~LexLess(x.published, y.published))
             hi == SelectSeq(sorted, LAMBDA y : LexLess(x.published, y.published))
         IN SortAscending(Tail(its), lo \o <<x>> \o hi)
RECURSIVE SortPublished(_, _)
SortPublished(its, sorted) ==
    IF its = <<>> THEN sorted
    ELSE SortPublished(Tail(its), InsertPublished(sorted, Head(its)))

RECURSIVE SumLen(_, _)
SumLen(f, S) ==
    IF S = {} THEN 0
    ELSE LET x == CHOOSE y \in S : TRUE IN Len(f[x]) + SumLen(f, S \ {x})
Kept == Len(items) + SumLen(collected, DOMAIN collected)

InitFetch ==
    /\ f_pc = "fetch" /\ f_sec = 1 /\ f_url = 1 /\ source = ""
    /\ dt = NoDate /\ items = <<>> /\ collected = <<>> /\ result = <<>> /\ f_failed = {}
    /\ IdleScore /\ IdleSumm /\ IdleClean /\ IdleIntro /\ IdleNotion /\ IdleMain

CurUrls == Sources[SectionOrder[f_sec]]

\* a failing endpoint that takes its section down with it
ParseFeedFails_abandoning_section ==
    /\ f_pc = "fetch" /\ f_sec <= Len(SectionOrder) /\ f_url <= Len(CurUrls)
    /\ f_url' = Len(CurUrls) + 1
    /\ items' = <<>>
    /\ f_failed' = f_failed \cup {CurUrls[f_url]}
    /\ UNCHANGED <<f_pc, f_sec, source, dt, collected, result>>
    /\ UNCHANGED <<scoreVars, summVars, cleanVars, introVars, notionVars, mainVars>>

\* feedparser.parse(url) raises: the endpoint is skipped
ParseFeedFails ==
    /\ f_pc = "fetch" /\ f_sec <= Len(SectionOrder) /\ f_url <= Len(CurUrls)
    /\ f_url' = f_url + 1
    /\ f_failed' = f_failed \cup {CurUrls[f_url]}
    /\ UNCHANGED <<f_pc, f_sec, source, dt, items, collected, result>>
    /\ UNCHANGED <<scoreVars, summVars, cleanVars, introVars, notionVars, mainVars>>

\* feedparser.parse(url) returns the parsed feed
ParseFeedOk ==
    /\ f_pc = "fetch" /\ f_sec <= Len(SectionOrder) /\ f_url <= Len(CurUrls)
    /\ f_pc' = "entries"
    /\ LET ft == FeedTitle[CurUrls[f_url]]
       IN source' = IF ft # "" THEN ft ELSE SectionOrder[f_sec]
    /\ UNCHANGED <<f_sec, f_url, dt, items, collected, result, f_failed>>
    /\ UNCHANGED <<scoreVars, summVars, cleanVars, introVars, notionVars, mainVars>>

\* an iteration of "for e in parsed.entries" raises: the except of the
\* endpoint's try logs the endpoint as failed and goes on to the next
\* endpoint; what the loop appended before stays in items
ProcessEntryRaises(e) ==
    /\ f_pc = "entries"
    /\ Overflows(parse_date(e))
    /\ dt' = parse_date(e)
    /\ f_failed' = f_failed \cup {CurUrls[f_url]}
    /\ f_pc' = "fetch"
    /\ f_url' = f_url + 1
    /\ UNCHANGED <<f_sec, source, items, collected, result>>
    /\ UNCHANGED <<scoreVars, summVars, cleanVars, introVars, notionVars, mainVars>>

\* one iteration of "for e in parsed.entries" that does not raise
ProcessEntry(e) ==
    /\ f_pc = "entries"
    /\ Kept < MaxEntries
    /\ ~Overflows(parse_date(e))
    /\ LET d == parse_date(e)
           n == IF d.kind = "none" THEN d ELSE ToNaiveUtc(d)
       IN /\ dt' = n
          /\ items' = IF n.kind = "none" \/ n.t < cutoff THEN items
                      ELSE Append(items, NewsItem(e, n.t, source))
    /\ UNCHANGED <<f_pc, f_sec, f_url, source, collected, result, f_failed>>
    /\ UNCHANGED <<scoreVars, summVars, cleanVars, introVars, notionVars, mainVars>>

\* parsed.entries is exhausted: on to the next endpoint
EndEntries ==
    /\ f_pc = "entries"
    /\ f_pc' = "fetch"
    /\ f_url' = f_url + 1
    /\ UNCHANGED <<f_sec, source, dt, items, collected, result, f_failed>>
    /\ UNCHANGED <<scoreVars, summVars, cleanVars, introVars, notionVars, mainVars>>

\* all endpoints of the section are done: de-dupe, sort, store, next section
FinishSection ==
    /\ f_pc = "fetch" /\ f_sec <= Len(SectionOrder) /\ f_url > Len(CurUrls)
    /\ LET section == SectionOrder[f_sec]
           deduped == SortPublished(Dedupe(items, {}, <<>>), <<>>)
       IN /\ result' = result @@ (section :> deduped)
          /\ collected' = collected @@ (section :> items)
    /\ items' = <<>>
    /\ f_sec' = f_sec + 1
    /\ f_url' = 1
    /\ f_pc' = IF f_sec = Len(SectionOrder) THEN "done" ELSE "fetch"
    /\ UNCHANGED <<source, dt, f_failed>>
    /\ UNCHANGED <<scoreVars, summVars, cleanVars, introVars, notionVars, mainVars>>

NextFetch ==
    \/ ParseFeedFails
    \/ ParseFeedOk
    \/ \E e \in Entries : ProcessEntry(e)
    \/ \E e \in Entries : ProcessEntryRaises(e)
    \/ EndEntries
    \/ FinishSection

SpecFetch == InitFetch /\ [][NextFetch]_vars

(***************************************************************************)
(* Properties of fetch_feeds                                               *)
(***************************************************************************)
\* The instant an entry's date denotes: the first of published, updated that
\* parses, an aware value taken to UTC and a naive one as it stands
HasDate(e) == e.published.kind = "ok" \/ e.updated.kind = "ok"
Instant(e) ==
    LET f == IF e.published.kind = "ok" THEN e.published ELSE e.updated
    IN IF f.aware THEN f.t - f.off ELSE f.t
InWindow(e) == HasDate(e) /\ Instant(e) >= Now - since_hours

\* The instant an isoformat string denotes
IsoToHours(p) == (p[1] * 10 + p[2]) * 24 + p[3] * 10 + p[4]

KeyOf(it) == <<it.title, it.url>>

\* C1: an entry is appended by fetch_feeds only if a date could be parsed from
\* published, else updated, and that date as a naive UTC instant is not earlier
\* than the invocation time minus the window; every output item carries the
\* timestamp of that instant, inside the window.
C1_OnlyDatedFresh ==
    /\ [](\A s \in DOMAIN result : \A i \in 1..Len(result[s]) :
            /\ Len(result[s][i].published) = 4
            /\ IsoToHours(result[s][i].published) >= Now - since_hours)
    /\ [][\A e \in Entries :
            (ProcessEntry(e) /\ items' # items) =>
                /\ InWindow(e)
                /\ Len(items') = Len(items) + 1
                /\ items'[Len(items')].published = IsoFormat(Instant(e))]_vars

\* C1 witness: the call has returned, the last entry handled had no parseable
\* date, and an entry dated exactly at the cutoff is in the output.
C1_Witness ==
    /\ f_pc = "done"
    /\ dt = NoDate
    /\ \E s \in DOMAIN result : \E i \in 1..Len(result[s]) :
          result[s][i].published = IsoFormat(Now - since_hours)

\* C2: within a section the output holds at most one item per (title, link)
\* pair, the retained item is the first occurrence in collection order, and
\* every collected pair is represented (so the same title under another link
\* survives).
C2_DedupFirstOccurrence ==
    \A s \in DOMAIN result :
        LET out == result[s]
            col == collected[s]
        IN /\ \A i, j \in 1..Len(out) : i # j => KeyOf(out[i]) # KeyOf(out[j])
           /\ \A i \in 1..Len(out) : \E j \in 1..Len(col) :
                 /\ col[j] = out[i]
                 /\ \A h \in 1..(j - 1) : KeyOf(col[h]) # KeyOf(out[i])
           /\ \A j \in 1..Len(col) : \E i \in 1..Len(out) : KeyOf(out[i]) = KeyOf(col[j])

\* C2 witness: a section collected the same (title, link) twice with different
\* dates, and the same title under two links, both of which are in the output.
C2_Witness ==
    \E s \in DOMAIN result :
        LET out == result[s]
            col == collected[s]
        IN /\ \E j, h \in 1..Len(col) :
                j < h /\ KeyOf(col[j]) = KeyOf(col[h]) /\ col[j] # col[h]
           /\ \E i, k \in 1..Len(out) :
                out[i].title = out[k].title /\ out[i].url # out[k].url

\* C3: the sequence returned for a section is ordered by publish time
\* descending: of two adjacent items the earlier is not older than the later.
C3_NewestFirst ==
    \A s \in DOMAIN result : \A i \in 1..(Len(result[s]) - 1) :
        IsoToHours(result[s][i].published) >= IsoToHours(result[s][i + 1].published)

\* C3 witness: three entries with distinct dates were delivered newest, oldest,
\* middle and all three are in the output.
C3_Witness ==
    \E s \in DOMAIN result :
        LET col == collected[s]
        IN /\ Len(col) = 3 /\ Len(result[s]) = 3
           /\ IsoToHours(col[1].published) > IsoToHours(col[3].published)
           /\ IsoToHours(col[3].published) > IsoToHours(col[2].published)

(***************************************************************************)
(* chat_json and score_items                                               *)
(***************************************************************************)
MaxScoreItems == 3              \* length of the list handed to score_items

\* A JSON value of the "score" key
JInt(v)   == [t |-> "int", v |-> v]
JFloat(v) == [t |-> "float", v |-> v]          \* v in tenths: 855 is 85.5
JStr(v)   == [t |-> "str", v |-> v]            \* the decimal literal of v
JBadStr   == [t |-> "badstr", v |-> 0]         \* a string that is no number
JNull     == [t |-> "null", v |-> 0]

\* What json.loads returns: an object with optional score and reason keys, or
\* a JSON value that is not an object
JObject(hs, sv, hr, r) ==
    [kind |-> "object", has_score |-> hs, score |-> sv, has_reason |-> hr, reason |-> r]
JOther == [kind |-> "other", has_score |-> FALSE, score |-> JNull,
           has_reason |-> FALSE, reason |-> ""]

JsonValues ==
    { JObject(TRUE, JInt(v), TRUE, "r") : v \in {0 - 5, 0, 50, 100, 150} }
    \cup { JObject(TRUE, JInt(50), FALSE, ""), JObject(TRUE, JFloat(855), TRUE, "r"),
           JObject(TRUE, JStr(60), TRUE, "r"), JObject(TRUE, JBadStr, TRUE, "r"),
           JObject(TRUE, JNull, TRUE, "r"), JObject(FALSE, JNull, TRUE, "r"),
           JObject(FALSE, JNull, FALSE, ""), JOther }

\* str(e) of the exceptions client.chat.completions.create raises: a short
\* message, one of exactly 100 characters, one of 101, and the text of an API
\* status error
TimeoutMsg == "timeout"
Msg100 ==
    "Request timed out after 600 seconds while waiting on the chat completions endpoint to send its reply"
Msg101 ==
    "Connection error: the name api.openai.com could not be resolved by any of the configured name servers"
QuotaMsg ==
    "Error code: 429 - {'error': {'message': 'You exceeded your current quota, please check your plan and billing details.', 'type': 'insufficient_quota', 'param': None, 'code': 'insufficient_quota'}}"
ErrorMessages == {TimeoutMsg, Msg100, Msg101, QuotaMsg}

\* str(e) of json.JSONDecodeError("Expecting value", "<html>", 0)
DecodeMsg == "Expecting value: line 1 column 1 (char 0)"

\* What client.chat.completions.create does: raises an exception of class cls
\* with message msg (the class json.JSONDecodeError, as a transport gives on a
\* body that is not JSON, or any other class), or returns a message whose
\* content is None, text that is not JSON, or JSON
Replies ==
    { [kind |-> "raise", cls |-> "Exception", msg |-> m, js |-> JOther] : m \in ErrorMessages }
    \cup { [kind |-> "raise", cls |-> "JSONDecodeError", msg |-> DecodeMsg, js |-> JOther],
           [kind |-> "none", cls |-> "", msg |-> "", js |-> JOther],
           [kind |-> "text", cls |-> "", msg |-> "", js |-> JOther] }
    \cup { [kind |-> "json", cls |-> "", msg |-> "", js |-> j] : j \in JsonValues }

\* str(e) of the TypeError json.loads raises on None
NoneTypeMsg == "the JSON object must be str, bytes or bytearray, not NoneType"

\* The number of characters of the exception message chat_json keeps
ErrorChars == 100

\* s[:n]
StrSlice(s, n) == IF Len(s) <= n THEN s ELSE SubSeq(s, 1, n)

\* chat_json as it would be if it kept the whole exception message
chat_json_untruncated(reply) ==
    CASE reply.kind = "json" -> reply.js
      [] reply.kind = "text" -> JObject(TRUE, JInt(0), TRUE, "JSON parse error")
      [] reply.kind = "none" -> JObject(TRUE, JInt(0), TRUE, "API error: " \o NoneTypeMsg)
      [] reply.kind = "raise" /\ reply.cls = "JSONDecodeError" ->
            JObject(TRUE, JInt(0), TRUE, "JSON parse error")
      [] reply.kind = "raise" /\ reply.cls # "JSONDecodeError" ->
            JObject(TRUE, JInt(0), TRUE, "API error: " \o reply.msg)
\* chat_json: the parsed JSON, or the fallback dict of the failure. One try
\* covers the request and json.loads, and "except json.JSONDecodeError" comes
\* before "except Exception": a JSONDecodeError, raised by json.loads on text
\* that is not JSON or by the request itself, gives "JSON parse error"; any
\* other exception, the TypeError of json.loads on None among them, gives
\* "API error: " and the first characters of its message
chat_json(reply) ==
    CASE reply.kind = "json" -> reply.js
      [] reply.kind = "text" -> JObject(TRUE, JInt(0), TRUE, "JSON parse error")
      [] reply.kind = "none" ->
            JObject(TRUE, JInt(0), TRUE, "API error: " \o StrSlice(NoneTypeMsg, ErrorChars))
      [] reply.kind = "raise" /\ reply.cls = "JSONDecodeError" ->
            JObject(TRUE, JInt(0), TRUE, "JSON parse error")
      [] reply.kind = "raise" /\ reply.cls # "JSONDecodeError" ->
            JObject(TRUE, JInt(0), TRUE, "API error: " \o StrSlice(reply.msg, ErrorChars))

\* int(x): does it return, and what
IntRaises(sv) == sv.t \in {"badstr", "null"}
IntOf(sv) ==
    CASE sv.t = "int" -> sv.v
      [] sv.t = "str" -> sv.v
      [] sv.t = "float" -> IF sv.v >= 0 THEN sv.v \div 10 ELSE 0 - ((0 - sv.v) \div 10)

\* it["importance"] = ...; it["importance_reason"] = ...
SetScore(it, imp, why) == [importance |-> imp, importance_reason |-> why] @@ it

\* The body of the loop of score_items for one item: scored after it
score_one_rebuilding(sc, it, reply) ==
    LET js == chat_json(reply)
    IN IF js.kind # "object" \/ (js.has_score /\ IntRaises(js.score))
       THEN Append(sc, [title |-> it.title, url |-> it.url, summary |-> it.summary,
                        published |-> <<>>, source |-> it.source,
                        importance |-> 0, importance_reason |-> "Scoring failed"])
       ELSE Append(sc, SetScore(it, IF js.has_score THEN IntOf(js.score) ELSE 0,
                                IF js.has_reason THEN js.reason ELSE ""))
score_one_dropping(sc, it, reply) ==
    LET js == chat_json(reply)
    IN IF js.kind # "object" \/ (js.has_score /\ IntRaises(js.score))
       THEN sc
       ELSE Append(sc, SetScore(it, IF js.has_score THEN IntOf(js.score) ELSE 0,
                                IF js.has_reason THEN js.reason ELSE ""))
score_one(sc, it, reply) ==
    LET js == chat_json(reply)
    IN IF js.kind # "object" \/ (js.has_score /\ IntRaises(js.score))
       THEN Append(sc, SetScore(it, 0, "Scoring failed"))
       ELSE Append(sc, SetScore(it, IF js.has_score THEN IntOf(js.score) ELSE 0,
                                IF js.has_reason THEN js.reason ELSE ""))

\* scored.sort(key=importance, reverse=True): stable, descending
RECURSIVE InsertImportance(_, _)
InsertImportance(sorted, x) ==
    IF sorted = <<>> THEN <<x>>
    ELSE IF Head(sorted).importance < x.importance THEN <<x>> \o sorted
    ELSE <<Head(sorted)>> \o InsertImportance(Tail(sorted), x)
RECURSIVE InsertImportanceTiesFirst(_, _)
InsertImportanceTiesFirst(sorted, x) ==
    IF sorted = <<>> THEN <<x>>
    ELSE IF Head(sorted).importance <= x.importance THEN <<x>> \o sorted
    ELSE <<Head(sorted)>> \o InsertImportanceTiesFirst(Tail(sorted), x)
RECURSIVE SortTiesReversed(_, _)
SortTiesReversed(its, sorted) ==
    IF its = <<>> THEN sorted
    ELSE SortTiesReversed(Tail(its), InsertImportanceTiesFirst(sorted, Head(its)))
RECURSIVE SortImportance(_, _)
SortImportance(its, sorted) ==
    IF its = <<>> THEN sorted
    ELSE SortImportance(Tail(its), InsertImportance(sorted, Head(its)))

\* The i-th item of a fetched section handed to score_items
FetchedItem(i) ==
    [title |-> <<"t", ToString(i)>>, url |-> <<"u", ToString(i)>>, summary |-> "s",
     published |-> IsoFormat(Now - i), source |-> "Feed"]

InitScore ==
    /\ s_pc = "loop" /\ s_idx = 0 /\ scored = <<>> /\ s_requests = 0 /\ s_replies = <<>>
    /\ \E n \in 0..MaxScoreItems : s_items = [i \in 1..n |-> FetchedItem(i)]
    /\ IdleFetch /\ IdleSumm /\ IdleClean /\ IdleIntro /\ IdleNotion /\ IdleMain

\* one iteration of "for idx, it in enumerate(items)"
ScoreItem(reply) ==
    /\ s_pc = "loop" /\ s_idx < Len(s_items)
    /\ scored' = score_one(scored, s_items[s_idx + 1], reply)
    /\ s_replies' = Append(s_replies, reply)
    /\ s_requests' = s_requests + 1
    /\ s_idx' = s_idx + 1
    /\ UNCHANGED <<s_pc, s_items>>
    /\ UNCHANGED <<fetchVars, summVars, cleanVars, introVars, notionVars, mainVars>>

\* FinishScore as it would be if the function sent one batch request for the
\* whole list before returning
FinishScore_with_batch_request ==
    /\ s_pc = "loop" /\ s_idx = Len(s_items)
    /\ scored' = SortImportance(scored, <<>>)
    /\ s_pc' = "done"
    /\ s_requests' = s_requests + 1
    /\ UNCHANGED <<s_items, s_idx, s_replies>>
    /\ UNCHANGED <<fetchVars, summVars, cleanVars, introVars, notionVars, mainVars>>

\* the loop is over: sort and return
FinishScore ==
    /\ s_pc = "loop" /\ s_idx = Len(s_items)
    /\ scored' = SortImportance(scored, <<>>)
    /\ s_pc' = "done"
    /\ UNCHANGED <<s_items, s_idx, s_requests, s_replies>>
    /\ UNCHANGED <<fetchVars, summVars, cleanVars, introVars, notionVars, mainVars>>

NextScore ==
    \/ \E reply \in Replies : ScoreItem(reply)
    \/ FinishScore

SpecScore == InitScore /\ [][NextScore]_vars

(***************************************************************************)
(* Properties of score_items                                               *)
(***************************************************************************)
ScoreKeys == {"importance", "importance_reason"}

\* An item without what scoring adds
Base(it) == [f \in (DOMAIN it) \ ScoreKeys |-> it[f]]

\* Position in the input of the item a scored item came from
InputIndex(x) == CHOOSE i \in 1..Len(s_items) : KeyOf(s_items[i]) = KeyOf(x)

\* The scored form of the i-th input item
Annotated(i) ==
    scored[CHOOSE j \in 1..Len(scored) : KeyOf(scored[j]) = KeyOf(s_items[i])]

\* The request failed or its response is malformed: API error, missing
\* content, content that is not JSON, JSON that is no object, no score key, or
\* a score int() rejects
FailedReply(r) ==
    \/ r.kind \in {"raise", "none", "text"}
    \/ r.js.kind # "object"
    \/ ~r.js.has_score
    \/ r.js.score.t \in {"badstr", "null"}

\* C4: score_items returns exactly the input items, none dropped and none
\* duplicated, each with an importance and a rationale, whatever requests
\* fail; every item gets its request and its place in the list.
C4_AllItemsKept ==
    /\ s_pc = "loop" => Len(scored) = s_idx
    /\ s_pc = "done" =>
          /\ Len(scored) = Len(s_items)
          /\ s_requests = Len(s_items)
          /\ \A i \in 1..Len(s_items) :
                Cardinality({j \in 1..Len(scored) : KeyOf(scored[j]) = KeyOf(s_items[i])}) = 1
    /\ \A j \in 1..Len(scored) : ScoreKeys \subseteq DOMAIN scored[j]

\* C4 witness: three items; the first request raised, the second got JSON that
\* is no object, the third was scored 50 and leads the returned list.
C4_Witness ==
    /\ s_pc = "done" /\ Len(s_items) = 3
    /\ s_replies[1].kind = "raise"
    /\ s_replies[2].kind = "json" /\ s_replies[2].js = JOther
    /\ s_replies[3].kind = "json" /\ s_replies[3].js = JObject(TRUE, JInt(50), TRUE, "r")
    /\ Len(scored) = 3 /\ scored[1].importance = 50

\* C5 as claimed: every failed or malformed response gives score 0 and one
\* and the same rationale string, whatever the kind of failure.
C5_OneFixedRationale ==
    \A i, k \in 1..s_idx :
        (FailedReply(s_replies[i]) /\ FailedReply(s_replies[k])) =>
            /\ Annotated(i).importance = 0
            /\ Annotated(i).importance_reason = Annotated(k).importance_reason

\* text is "API error: " followed by the first 100 characters of msg, or by
\* all of msg when it has no more than 100
IsApiError(text, msg) ==
    LET n == IF Len(msg) < 100 THEN Len(msg) ELSE 100
    IN /\ Len(text) = 11 + n
       /\ SubSeq(text, 1, 11) = "API error: "
       /\ SubSeq(text, 12, 11 + n) = SubSeq(msg, 1, n)

\* The rationale of a failure is the one its kind of failure gives
FailureRationale(text, r) ==
    CASE r.kind = "raise" ->
            IF r.cls = "JSONDecodeError" THEN text = "JSON parse error"
            ELSE IsApiError(text, r.msg)
      [] r.kind = "none" -> IsApiError(text, NoneTypeMsg)
      [] r.kind = "text" -> text = "JSON parse error"
      [] r.kind = "json" /\ (r.js.kind # "object" \/ r.js.has_score) -> text = "Scoring failed"
      [] OTHER -> text = (IF r.js.has_reason THEN r.js.reason ELSE "")

\* C5 amended: every failed or malformed response gives score 0; the rationale
\* depends on the kind of failure: "API error: " followed by the first 100
\* characters of the exception's message when the request raises an exception
\* other than a json.JSONDecodeError or the content is missing, "JSON parse
\* error" when the content is not JSON or the request raises a
\* json.JSONDecodeError, "Scoring failed" when the JSON is no object or int()
\* rejects its score, and the response's own reason (or the empty string) when
\* the score key is absent.
C5_RationalePerFailure ==
    \A i \in 1..s_idx :
        FailedReply(s_replies[i]) =>
            /\ Annotated(i).importance = 0
            /\ FailureRationale(Annotated(i).importance_reason, s_replies[i])

\* C5 witness: the first request raised with a message of 195 characters, of
\* which the rationale keeps the first 100, and the second got text that is
\* not JSON; both items have score 0 and their rationales differ. The third
\* request raised a json.JSONDecodeError and has the rationale of the second.
C5_Witness ==
    /\ s_pc = "done" /\ Len(s_items) = 3
    /\ s_replies[1].kind = "raise" /\ s_replies[1].msg = QuotaMsg
    /\ s_replies[2].kind = "text"
    /\ Annotated(1).importance = 0 /\ Annotated(2).importance = 0
    /\ Annotated(1).importance_reason =
          "API error: Error code: 429 - {'error': {'message': 'You exceeded your current quota, please check your plan and"
    /\ Annotated(2).importance_reason = "JSON parse error"
    /\ s_replies[3].kind = "raise" /\ s_replies[3].cls = "JSONDecodeError"
    /\ Annotated(3).importance = 0
    /\ Annotated(3).importance_reason = "JSON parse error"

\* C6: after score_items the importance of every item is an integer in 0..100.
C6_ScoreInRange ==
    \A j \in 1..Len(scored) : scored[j].importance \in 0..100

\* C7: the returned list is ordered by importance descending, and items with
\* equal importance keep their relative input order.
C7_SortedStable ==
    s_pc = "done" =>
        \A j, k \in 1..Len(scored) :
            j < k =>
                /\ scored[j].importance >= scored[k].importance
                /\ scored[j].importance = scored[k].importance =>
                      InputIndex(scored[j]) < InputIndex(scored[k])

\* C7 witness: the last input item scored highest and leads the list; the two
\* before it tie and follow in input order.
C7_Witness ==
    /\ s_pc = "done" /\ Len(scored) = 3
    /\ InputIndex(scored[1]) = 3
    /\ scored[1].importance > scored[2].importance
    /\ scored[2].importance = scored[3].importance

\* C8: scoring only adds the importance and the rationale: title, link,
\* published, source (and summary) of every item are what they were, on
\* success and on failure.
C8_AdditiveOnly ==
    /\ s_pc = "loop" => \A j \in 1..Len(scored) : Base(scored[j]) = s_items[j]
    /\ s_pc = "done" =>
          \A i \in 1..Len(s_items) : \E j \in 1..Len(scored) : Base(scored[j]) = s_items[i]
    /\ \A j \in 1..Len(scored) :
          DOMAIN scored[j] = {"title", "url", "summary", "published", "source"} \cup ScoreKeys

\* C8 witness: of two items one was scored 100 and the other failed on a score
\* int() rejects; both are in the returned list.
C8_Witness ==
    /\ s_pc = "done" /\ Len(scored) = 2
    /\ s_replies[1].js = JObject(TRUE, JBadStr, TRUE, "r") /\ s_replies[1].kind = "json"
    /\ s_replies[2].js = JObject(TRUE, JInt(100), TRUE, "r") /\ s_replies[2].kind = "json"
    /\ scored[1].importance = 100 /\ scored[2].importance_reason = "Scoring failed"

(***************************************************************************)
(* summarize_items                                                         *)
(* The returned text is kept as the sequence of the parts the f-strings    *)
(* join: literals, interpolated character strings and numbers.             *)
(***************************************************************************)
MaxSummItems == 6               \* length of the list handed to summarize_items
max_items_default == 5

Lit(x)   == [k |-> "lit", lit |-> x, chars |-> <<>>, num |-> 0]
Chars(c) == [k |-> "chars", lit |-> "", chars |-> c, num |-> 0]
Num(n)   == [k |-> "num", lit |-> "", chars |-> <<>>, num |-> n]

SecAi       == <<"a", "i">>
SecMontreal == <<"m", "o", "n", "t", "r", "e", "a", "l", "_", "n", "e", "w", "s">>
SecGuardian == <<"g", "u", "a", "r", "d", "i", "a", "n">>
SecBbc      == <<"b", "b", "c">>
SecAlpha    == <<"a", "l", "p", "h", "a">>
SummSections == {SecAi, SecMontreal, SecAlpha}
MaxItemsChoices == {1, 3, max_items_default}

\* section_emojis.get(section_name.lower(), default), the emoji by its name
Emoji(section_name) ==
    LET low == Lower(section_name)
    IN CASE low = SecGuardian -> Lit(":classical_building:")
         [] low = SecBbc -> Lit(":television:")
         [] low = SecMontreal -> Lit(":maple_leaf:")
         [] low = SecAi -> Lit(":robot:")
         [] OTHER -> Lit(":newspaper:")

\* What the generation request does: raises, or returns a message whose
\* content is None or a text
GenTexts == { <<"o", "k">>, <<" ", "o", "k", "\n">>, <<>>, <<" ", " ">>, <<"s", "e", "e", " ", "h", "t", "t", "p", ":", "/", "/", "x", " ", "n", "o", "w">> }
GenReplies ==
    { [kind |-> "raise", text |-> <<>>], [kind |-> "none", text |-> <<>>] }
    \cup { [kind |-> "text", text |-> t] : t \in GenTexts }

Heading(section_name) == <<Lit("## "), Chars(Title(section_name))>>

\* summarize_items as it would be if it listed every item of the section
summarize_body_unlimited(section_name, its, max_items, reply) ==
    LET lines == [i \in 1..Len(its) |-> <<Lit("- **"), Chars(its[i].title), Lit("**")>>]
    IN IF reply.kind = "text"
       THEN [out |-> Heading(section_name) \o <<Lit("\n")>>
                     \o <<Emoji(section_name), Lit(" "),
                          Chars(Title(ReplaceChar(section_name, "_", " "))),
                          Lit(" highlights - "), Num(Len(its)), Lit(" "),
                          Lit("articles"), Lit(" teed up.\n\n")>>
                     \o <<Chars(StripUrls(Strip(reply.text)))>>,
             requests |-> 1, user |-> lines]
       ELSE [out |-> Heading(section_name)
                     \o <<Lit("\n_Summary generation failed. "), Num(Len(its)),
                          Lit(" items available._")>>,
             requests |-> 1, user |-> lines]

\* summarize_items from "article_count = ..." on: [out, requests, user]
summarize_body(section_name, its, max_items, reply) ==
    LET top == SubSeq(its, 1, IF max_items < Len(its) THEN max_items ELSE Len(its))
        article_count == Len(top)
        section_display == Title(ReplaceChar(section_name, "_", " "))
        word1 == IF article_count = 1 THEN "compelling article" ELSE "articles"
        article_word == IF article_count >= 3 THEN "compelling " \o word1 ELSE word1
        \* (the dash of the source is an em dash)
        intro == <<Emoji(section_name), Lit(" "), Chars(section_display),
                   Lit(" highlights - "), Num(article_count), Lit(" "),
                   Lit(article_word), Lit(" teed up.\n\n")>>
        lines == [i \in 1..Len(top) |-> <<Lit("- **"), Chars(top[i].title), Lit("**")>>]
    IN IF reply.kind = "text"
       THEN [out |-> Heading(section_name) \o <<Lit("\n")>> \o intro
                     \o <<Chars(StripUrls(Strip(reply.text)))>>,
             requests |-> 1, user |-> lines]
       ELSE [out |-> Heading(section_name)
                     \o <<Lit("\n_Summary generation failed. "), Num(Len(its)),
                          Lit(" items available._")>>,
             requests |-> 1, user |-> lines]

summarize_unguarded(section_name, its, max_items, reply) ==
    summarize_body(section_name, its, max_items, reply)
\* summarize_items(client, section_name, items, max_items): [out, requests, user]
summarize(section_name, its, max_items, reply) ==
    IF its = <<>>
    THEN [out |-> Heading(section_name) \o <<Lit("\n_No fresh items found._")>>,
          requests |-> 0, user |-> <<>>]
    ELSE summarize_body(section_name, its, max_items, reply)

(***************************************************************************)
(* generate_morning_intro                                                  *)
(***************************************************************************)
MaxCount == 3                   \* largest per-section count of sections_summary

\* one entry of overview_parts
OverviewPart(section, count) ==
    LET section_display == Title(ReplaceChar(section, "_", " "))
        article_word == IF count = 1 THEN "article" ELSE "articles"
    IN IF count >= 3
       THEN <<Num(count), Lit(" interesting "), Lit(article_word), Lit(" from "), Chars(section_display)>>
       ELSE <<Num(count), Lit(" "), Lit(article_word), Lit(" from "), Chars(section_display)>>

\* ", ".join(overview_parts), over the sections whose count is positive
RECURSIVE Overview(_)
Overview(summary) ==
    IF summary = <<>> THEN <<>>
    ELSE LET rest == Overview(Tail(summary))
             h == Head(summary)
         IN IF h.count > 0
            THEN OverviewPart(h.section, h.count)
                 \o (IF rest = <<>> THEN <<>> ELSE <<Lit(", ")>> \o rest)
            ELSE rest

sections_hint(summary) ==
    IF Overview(summary) # <<>> THEN Overview(summary)
    ELSE <<Lit("Keep it light; no major sections today.")>>

\* generate_morning_intro(client, sections_summary): [out, requests]
\* (emojis are written by name and typographic apostrophes as ')
generate_morning_intro(summary, reply) ==
    IF reply.kind = "text"
    THEN [out |-> <<Chars(Strip(reply.text))>>, requests |-> 1]
    ELSE [out |-> <<Lit(":sunrise: Good morning Anton! Here's what's worth knowing today.\n\n"),
                    Lit(":zen: Zen moment: \"The present moment is the only moment available to us, and it is the door to all moments.\"\n\n"),
                    Lit(":chart: Quick scan: ")>>
                  \o sections_hint(summary)
                  \o <<Lit("\n\n"),
                       Lit(":people: Human touch: Spotlighting one neighbourly story to start your day.")>>,
          requests |-> 1]

\* sections_summary as main builds it: section -> count, in insertion order
Summaries ==
    { <<[section |-> SecGuardian, count |-> a], [section |-> SecMontreal, count |-> b]>> :
          a \in {0, 1, MaxCount}, b \in {0, MaxCount} }

\* The i-th item of a scored section, as score_items returns them
ScoredItem(i) == SetScore(FetchedItem(i), 100 - 10 * i, "r")

InitSumm ==
    /\ m_pc = "call" /\ m_requests = 0 /\ m_user = <<>> /\ m_out = <<>>
    /\ m_section \in SummSections
    /\ m_max \in MaxItemsChoices
    /\ \E n \in 0..MaxSummItems : m_items = [i \in 1..n |-> ScoredItem(i)]
    /\ g_pc = "call" /\ g_requests = 0 /\ g_out = <<>>
    /\ g_summary \in Summaries
    /\ IdleFetch /\ IdleScore /\ IdleClean /\ IdleNotion /\ IdleMain

\* one call of summarize_items
Summarize(reply) ==
    /\ m_pc = "call"
    /\ LET r == summarize(m_section, m_items, m_max, reply)
       IN /\ m_out' = r.out
          /\ m_requests' = r.requests
          /\ m_user' = r.user
    /\ m_pc' = "done"
    /\ UNCHANGED <<m_section, m_items, m_max>>
    /\ UNCHANGED <<fetchVars, scoreVars, cleanVars, introVars, notionVars, mainVars>>

\* one call of generate_morning_intro
MorningIntro(reply) ==
    /\ g_pc = "call"
    /\ LET r == generate_morning_intro(g_summary, reply)
       IN /\ g_out' = r.out
          /\ g_requests' = r.requests
    /\ g_pc' = "done"
    /\ UNCHANGED g_summary
    /\ UNCHANGED <<fetchVars, scoreVars, summVars, cleanVars, notionVars, mainVars>>

NextSumm ==
    \/ \E reply \in GenReplies : Summarize(reply)
    \/ \E reply \in GenReplies : MorningIntro(reply)

SpecSumm == InitSumm /\ [][NextSumm]_vars

(***************************************************************************)
(* Properties of summarize_items                                           *)
(***************************************************************************)
\* The heading text of each section
HeadingText(section_name) ==
    CASE section_name = SecAi -> <<"A", "i">>
      [] section_name = SecMontreal -> <<"M", "o", "n", "t", "r", "e", "a", "l", "_", "N", "e", "w", "s">>
      [] section_name = SecAlpha -> <<"A", "l", "p", "h", "a">>

\* C9: a section with zero items is rendered as exactly its heading followed
\* by the placeholder _No fresh items found._, with no generation request, no
\* item selected and no error.
C9_EmptySectionPlaceholder ==
    (m_pc = "done" /\ m_items = <<>>) =>
        /\ m_out = <<Lit("## "), Chars(HeadingText(m_section)),
                     Lit("\n_No fresh items found._")>>
        /\ m_requests = 0
        /\ m_user = <<>>

\* C9 witness: summarize_items has returned for the section montreal_news with
\* no items, under the heading Montreal_News.
C9_Witness ==
    /\ m_pc = "done" /\ m_items = <<>> /\ m_section = SecMontreal
    /\ Len(m_out) = 3 /\ m_out[2] = Chars(<<"M", "o", "n", "t", "r", "e", "a", "l", "_", "N", "e", "w", "s">>)

(***************************************************************************)
(* clean_for_text and clean_for_tts                                        *)
(* Each XxxEnd(s, i) is the match of one compiled pattern at index i: the  *)
(* index after the match, or 0 when the pattern does not match at i.  Each *)
(* SubXxx is pattern.sub over the whole string: leftmost matches, not      *)
(* overlapping, the scan resuming after each match.                        *)
(***************************************************************************)
MaxPieces == 3                  \* pieces an input text is made of

IsDigits(s, i, n) == i + n - 1 <= Len(s) /\ \A k \in 0..(n - 1) : IsDigit(s[i + k])

\* DATE_PARENS  \(Date:\s*\d{4}-\d{2}-\d{2}\)
DateParensEnd(s, i) ==
    LET p == SkipSpace(s, i + 6)
    IN IF /\ MatchLit(s, i, <<"(", "D", "a", "t", "e", ":">>)
          /\ IsDigits(s, p, 4) /\ MatchLit(s, p + 4, <<"-">>)
          /\ IsDigits(s, p + 5, 2) /\ MatchLit(s, p + 7, <<"-">>)
          /\ IsDigits(s, p + 8, 2) /\ MatchLit(s, p + 10, <<")">>)
       THEN p + 11 ELSE 0
RECURSIVE SubDateParensFrom(_, _)
SubDateParensFrom(s, i) ==
    IF i > Len(s) THEN <<>>
    ELSE IF DateParensEnd(s, i) # 0 THEN SubDateParensFrom(s, DateParensEnd(s, i))
    ELSE <<s[i]>> \o SubDateParensFrom(s, i + 1)
SubDateParens(s) == SubDateParensFrom(s, 1)

\* CLEAN_PHRASES  \b(?:read|view|click|watch|listen)\s+(?:here|more)\b, IGNORECASE
CtaVerbs == { <<"r", "e", "a", "d">>, <<"v", "i", "e", "w">>, <<"c", "l", "i", "c", "k">>, <<"w", "a", "t", "c", "h">>, <<"l", "i", "s", "t", "e", "n">> }
CtaWords == { <<"h", "e", "r", "e">>, <<"m", "o", "r", "e">> }
\* the pattern without its leading and trailing \b
CleanPhraseEnd_unbounded(s, i) ==
    IF \E v \in CtaVerbs : MatchLitCI(s, i, v)
    THEN LET v == CHOOSE w \in CtaVerbs : MatchLitCI(s, i, w)
             p == i + Len(v)
             q == SkipSpace(s, p)
         IN IF q > p /\ \E w \in CtaWords : MatchLitCI(s, q, w)
            THEN q + 4 ELSE 0
    ELSE 0
CleanPhraseEnd(s, i) ==
    IF i > 1 /\ IsWord(s[i - 1]) THEN 0
    ELSE IF \E v \in CtaVerbs : MatchLitCI(s, i, v)
    THEN LET v == CHOOSE w \in CtaVerbs : MatchLitCI(s, i, w)
             p == i + Len(v)
             q == SkipSpace(s, p)
         IN IF /\ q > p
               /\ \E w \in CtaWords : MatchLitCI(s, q, w)
               /\ (q + 4 > Len(s) \/ ~IsWord(s[q + 4]))
            THEN q + 4 ELSE 0
    ELSE 0
RECURSIVE SubCleanPhrasesFrom(_, _)
SubCleanPhrasesFrom(s, i) ==
    IF i > Len(s) THEN <<>>
    ELSE IF CleanPhraseEnd(s, i) # 0 THEN SubCleanPhrasesFrom(s, CleanPhraseEnd(s, i))
    ELSE <<s[i]>> \o SubCleanPhrasesFrom(s, i + 1)
SubCleanPhrases(s) == SubCleanPhrasesFrom(s, 1)

\* MARKDOWN_LINK  \[([^\]]+)\]\((?:https?://|www\.)[^\s)]+\)  ->  \1
\* AnchorEnd is the index of the closing bracket
AnchorEnd(s, i) == SkipAnchor(s, i + 1)
MarkdownLinkEnd(s, i) ==
    LET a == AnchorEnd(s, i)
        u == a + 2
        b == IF SchemeEnd(s, u) # 0 THEN SchemeEnd(s, u)
             ELSE IF MatchLit(s, u, <<"w", "w", "w", ".">>) THEN u + 4 ELSE 0
        c == SkipUrlBody(s, b)
    IN IF /\ MatchLit(s, i, <<"[">>)
          /\ a > i + 1
          /\ MatchLit(s, a, <<"]", "(">>)
          /\ b # 0 /\ c > b
          /\ MatchLit(s, c, <<")">>)
       THEN c + 1 ELSE 0
RECURSIVE SubMarkdownLinkFrom(_, _)
SubMarkdownLinkFrom(s, i) ==
    IF i > Len(s) THEN <<>>
    ELSE IF MarkdownLinkEnd(s, i) # 0
    THEN SubSeq(s, i + 1, AnchorEnd(s, i) - 1) \o SubMarkdownLinkFrom(s, MarkdownLinkEnd(s, i))
    ELSE <<s[i]>> \o SubMarkdownLinkFrom(s, i + 1)
SubMarkdownLink(s) == SubMarkdownLinkFrom(s, 1)

\* SECTION_INTRO  ^\s*(?:[^\n]*?News from\s+(?:Guardian|BBC)[^\n]*\n\n),
\* IGNORECASE | MULTILINE.  NewsAt: "News from ..." to the blank line, at k
NewsAt(s, k) ==
    LET p == k + 9
        q == SkipSpace(s, p)
        r == IF MatchLitCI(s, q, <<"G", "u", "a", "r", "d", "i", "a", "n">>) THEN q + 8
             ELSE IF MatchLitCI(s, q, <<"B", "B", "C">>) THEN q + 3 ELSE 0
        e == SkipLine(s, r)
    IN IF /\ MatchLitCI(s, k, <<"N", "e", "w", "s", " ", "f", "r", "o", "m">>)
          /\ q > p /\ r # 0
          /\ MatchLit(s, e, <<"\n", "\n">>)
       THEN e + 2 ELSE 0
\* the lazy [^\n]*? : the first k on the line where the rest matches
RECURSIVE FindNews(_, _)
FindNews(s, k) ==
    IF k > Len(s) THEN 0
    ELSE IF NewsAt(s, k) # 0 THEN NewsAt(s, k)
    ELSE IF s[k] = "\n" THEN 0
    ELSE FindNews(s, k + 1)
SectionIntroEnd(s, i) ==
    IF i = 1 \/ s[i - 1] = "\n" THEN FindNews(s, SkipSpace(s, i)) ELSE 0
RECURSIVE SubSectionIntroFrom(_, _)
SubSectionIntroFrom(s, i) ==
    IF i > Len(s) THEN <<>>
    ELSE IF SectionIntroEnd(s, i) # 0 THEN SubSectionIntroFrom(s, SectionIntroEnd(s, i))
    ELSE <<s[i]>> \o SubSectionIntroFrom(s, i + 1)
SubSectionIntro(s) == SubSectionIntroFrom(s, 1)

\* re.sub(r"[ \t]+\n", "\n", s)
TrailingBlankEnd(s, i) ==
    LET r == SkipBlank(s, i)
    IN IF r > i /\ MatchLit(s, r, <<"\n">>) THEN r + 1 ELSE 0
RECURSIVE SubTrailingBlankFrom(_, _)
SubTrailingBlankFrom(s, i) ==
    IF i > Len(s) THEN <<>>
    ELSE IF TrailingBlankEnd(s, i) # 0
    THEN <<"\n">> \o SubTrailingBlankFrom(s, TrailingBlankEnd(s, i))
    ELSE <<s[i]>> \o SubTrailingBlankFrom(s, i + 1)
SubTrailingBlank(s) == SubTrailingBlankFrom(s, 1)

\* MULTISPACE  [ \t]{2,}  ->  " "
MultiSpaceEnd(s, i) == IF SkipBlank(s, i) >= i + 2 THEN SkipBlank(s, i) ELSE 0
RECURSIVE SubMultiSpaceFrom(_, _)
SubMultiSpaceFrom(s, i) ==
    IF i > Len(s) THEN <<>>
    ELSE IF MultiSpaceEnd(s, i) # 0 THEN <<" ">> \o SubMultiSpaceFrom(s, MultiSpaceEnd(s, i))
    ELSE <<s[i]>> \o SubMultiSpaceFrom(s, i + 1)
SubMultiSpace(s) == SubMultiSpaceFrom(s, 1)

\* MULTINEWLINE  \n{3,}  ->  repl
MultiNewlineEnd(s, i) == IF SkipNewlines(s, i) >= i + 3 THEN SkipNewlines(s, i) ELSE 0
RECURSIVE SubMultiNewlineFrom(_, _, _)
SubMultiNewlineFrom(s, i, repl) ==
    IF i > Len(s) THEN <<>>
    ELSE IF MultiNewlineEnd(s, i) # 0
    THEN repl \o SubMultiNewlineFrom(s, MultiNewlineEnd(s, i), repl)
    ELSE <<s[i]>> \o SubMultiNewlineFrom(s, i + 1, repl)
SubMultiNewline(s, repl) == SubMultiNewlineFrom(s, 1, repl)

clean_for_text(markdown) ==
    LET s1 == SubDateParens(markdown)
        s2 == SubCleanPhrases(s1)
        s3 == SubMarkdownLink(s2)
        s4 == SubSectionIntro(s3)
        s5 == SubTrailingBlank(s4)
        s6 == SubMultiSpace(s5)
        s7 == SubMultiNewline(s6, <<"\n", "\n">>)
    IN Strip(s7)

clean_for_tts(text) ==
    LET s1 == StripUrls(text)
        s2 == SubMarkdownLink(s1)
        s3 == SubDateParens(s2)
        s4 == SubCleanPhrases(s3)
        s5 == SubSectionIntro(s4)
        s6 == SubMultiSpace(s5)
        s7 == SubMultiNewline(s6, <<"\n">>)
    IN Strip(s7)

\* The texts handed to the transforms: up to MaxPieces of these, joined
Pieces ==
    { <<"c", "l", "i", "c", "k", " ">>, <<"r", "e", "a", "d", " ", "h", "e", "r", "e", " ">>, <<"m", "o", "r", "e">>,
      <<"[", "L", "i", "n", "k", "]">>, <<"(", "h", "t", "t", "p", "s", ":", "/", "/", "x", ".", "y", ")">>, <<"(", "D", "a", "t", "e", ":", " ", "2", "0", "2", "5", "-", "0", "9", "-", "2", "2", ")">>,
      <<"N", "e", "w", "s", " ", "f", "r", "o", "m", " ", "B", "B", "C", "\n">>, <<"\n">>, <<" ">>,
      <<"(", "o", "k", ")">>, <<"\\xe9">>, <<"\r">> }
RECURSIVE Join(_)
Join(ps) == IF ps = <<>> THEN <<>> ELSE Head(ps) \o Join(Tail(ps))
Inputs == { Join(ps) : ps \in UNION { [1..n -> Pieces] : n \in 0..MaxPieces } }

Clean(fn, x) == IF fn = "text" THEN clean_for_text(x) ELSE clean_for_tts(x)

InitClean ==
    /\ c_pc = "input" /\ c_once = <<>> /\ c_twice = <<>>
    /\ c_fn \in {"text", "tts"}
    /\ c_in \in Inputs
    /\ IdleFetch /\ IdleScore /\ IdleSumm /\ IdleIntro /\ IdleNotion /\ IdleMain

\* once = fn(input)
CleanOnce ==
    /\ c_pc = "input"
    /\ c_once' = Clean(c_fn, c_in)
    /\ c_pc' = "once"
    /\ UNCHANGED <<c_fn, c_in, c_twice>>
    /\ UNCHANGED <<fetchVars, scoreVars, summVars, introVars, notionVars, mainVars>>

\* twice = fn(once)
CleanTwice ==
    /\ c_pc = "once"
    /\ c_twice' = Clean(c_fn, c_once)
    /\ c_pc' = "twice"
    /\ UNCHANGED <<c_fn, c_in, c_once>>
    /\ UNCHANGED <<fetchVars, scoreVars, summVars, introVars, notionVars, mainVars>>

NextClean == CleanOnce \/ CleanTwice

SpecClean == InitClean /\ [][NextClean]_vars

(***************************************************************************)
(* Properties of the cleaning transforms                                   *)
(***************************************************************************)
\* C10: both cleaning transforms are fixed points: for every input text,
\* clean_for_text(clean_for_text(x)) = clean_for_text(x) and
\* clean_for_tts(clean_for_tts(x)) = clean_for_tts(x).
C10_Idempotent == c_pc = "twice" => c_twice = c_once

\* Number of places where the literal lit occurs in s
Occurrences(s, lit) == Cardinality({ i \in 1..Len(s) : MatchLit(s, i, lit) })

\* The markdown links of a text: the indices where MARKDOWN_LINK matches
LinksOf(s) == { i \in 1..Len(s) : MarkdownLinkEnd(s, i) # 0 }

\* Every bracket and every parenthesised URL of s is part of a markdown link
OnlyLinkSyntax(s) ==
    /\ \A i \in 1..Len(s) : s[i] = "[" => i \in LinksOf(s)
    /\ \A i \in 1..Len(s) : MatchLit(s, i, <<"(", "h", "t", "t", "p">>) =>
           \E j \in LinksOf(s) : AnchorEnd(s, j) + 1 = i

\* C11: in both transforms every markdown link [Anchor](https://url) of the
\* input is reduced to exactly Anchor: the anchor text appears once per link,
\* and no URL, bracket or link parenthesis remains in the output.
C11_LinkReducedToAnchor ==
    (c_pc # "input" /\ LinksOf(c_in) # {} /\ OnlyLinkSyntax(c_in)) =>
        /\ Occurrences(c_once, <<"L", "i", "n", "k">>) = Cardinality(LinksOf(c_in))
        /\ Occurrences(c_once, <<"h", "t", "t", "p">>) = 0
        /\ \A i \in 1..Len(c_once) : c_once[i] \notin {"[", "]", "(", ")"}
           \/ MatchLit(c_once, i, <<"(", "D", "a", "t", "e">>)
           \/ (c_once[i] = ")" /\ i > 1 /\ IsDigit(c_once[i - 1]))

\* C12: for every input the output of either transform contains no
\* (Date: YYYY-MM-DD) parenthetical and no call-to-action phrase
\* (read/view/click/watch/listen, whitespace, here/more, in any letter case).
C12_NoTargetLeft ==
    c_pc # "input" =>
        \A i \in 1..Len(c_once) :
            DateParensEnd(c_once, i) = 0 /\ CleanPhraseEnd(c_once, i) = 0

\* A call-to-action phrase stands at i: a verb, whitespace and here/more, as
\* whole words
CtaAt(s, i) ==
    /\ (i = 1 \/ ~IsWord(s[i - 1]))
    /\ \E v \in CtaVerbs :
          /\ MatchLitCI(s, i, v)
          /\ \E q \in (i + Len(v) + 1)..Len(s) :
                /\ \A k \in (i + Len(v))..(q - 1) : IsSpace(s[k])
                /\ \E w \in CtaWords :
                      /\ MatchLitCI(s, q, w)
                      /\ (q + Len(w) > Len(s) \/ ~IsWord(s[q + Len(w)]))

\* A text free of every pattern the transform fn removes and of excess
\* whitespace (over the alphabet of Pieces)
TargetFree(fn, s) ==
    /\ Occurrences(s, <<"(", "D", "a", "t", "e", ":">>) = 0
    /\ \A i \in 1..Len(s) : ~CtaAt(s, i)
    /\ Occurrences(s, <<"]", "(", "h", "t", "t", "p">>) = 0
    /\ Occurrences(s, <<"B", "B", "C", "\n", "\n">>) = 0
    /\ Occurrences(s, <<" ", " ">>) = 0
    /\ Occurrences(s, <<"\n", "\n", "\n">>) = 0
    /\ fn = "text" => Occurrences(s, <<" ", "\n">>) = 0
    /\ fn = "tts" => Occurrences(s, <<"h", "t", "t", "p">>) = 0

\* t is s without its leading and trailing whitespace
Trimmed(s, t) ==
    /\ \E a \in 0..Len(s) :
          /\ a + Len(t) <= Len(s)
          /\ SubSeq(s, a + 1, a + Len(t)) = t
          /\ \A k \in 1..a : IsSpace(s[k])
          /\ \A k \in (a + Len(t) + 1)..Len(s) : IsSpace(s[k])
    /\ t # <<>> => ~IsSpace(t[1]) /\ ~IsSpace(t[Len(t)])

\* C13: both transforms keep non-target content: a text with no target
\* pattern and no excess whitespace, whatever other parentheticals it has and
\* whatever words contain a call-to-action verb or word as a substring, comes
\* back unchanged except for the trimming of leading and trailing whitespace.
C13_NonTargetKept ==
    (c_pc # "input" /\ TargetFree(c_fn, c_in)) => Trimmed(c_in, c_once)

\* C13 witness: "\xe9read here (ok)" has been cleaned: a parenthetical that is
\* no date, and "read here" inside a longer word.
C13_Witness ==
    /\ c_pc = "once"
    /\ c_in = <<"\\xe9", "r", "e", "a", "d", " ", "h", "e", "r", "e", " ", "(", "o", "k", ")">>
    /\ c_once = c_in

(***************************************************************************)
(* The workspace collection and find_or_create_daily_page                  *)
(* (src/app/notion_utils.py).  A page is [id, title]; the collection       *)
(* answers databases.query with the pages whose title equals the filter,   *)
(* at most page_size of them, and pages.create with a page of a fresh id.  *)
(* A request can fail; a failed create may or may not have stored the page *)
(* before the failure reached the caller.                                  *)
(***************************************************************************)
MaxCalls == 3                   \* find_or_create_daily_page calls in one behaviour

Titles == {"2025-09-22", "2025-09-23"}
Faults == {"none", "query", "create", "create_stored"}

Page(i, t) == [id |-> i, title |-> t]

\* notion.databases.query(filter title equals, page_size 1): resp["results"]
RECURSIVE Matching(_, _)
Matching(pages, title) ==
    IF pages = <<>> THEN <<>>
    ELSE IF Head(pages).title = title THEN <<Head(pages)>> \o Matching(Tail(pages), title)
    ELSE Matching(Tail(pages), title)
query(pages, title) ==
    LET all == Matching(pages, title)
    IN IF all = <<>> THEN <<>> ELSE <<Head(all)>>

\* notion.pages.create(parent, properties): the collection with the new page
create(pages, title) == Append(pages, Page(Len(pages) + 1, title))

Raised   == [kind |-> "raise", page_id |-> 0]
Found(i) == [kind |-> "page", page_id |-> i]
QueryCall(title, ok, n) == [op |-> "query", title |-> title, ok |-> ok, n |-> n]
CreateCall(title, ok)   == [op |-> "create", title |-> title, ok |-> ok, n |-> 0]

\* the function without its look-up result: it creates on every call
find_or_create_always_creating(pages, title, fault) ==
    IF fault = "query"
    THEN [pages |-> pages, calls |-> <<QueryCall(title, FALSE, 0)>>, ret |-> Raised]
    ELSE [pages |-> create(pages, title),
          calls |-> <<QueryCall(title, TRUE, Len(query(pages, title))), CreateCall(title, TRUE)>>,
          ret |-> Found(Len(pages) + 1)]

\* find_or_create_daily_page(notion, db_id, title): the collection after the
\* call, the requests made, and what the call returned or that it raised
find_or_create_daily_page(pages, title, fault) ==
    LET results == query(pages, title)
        q == QueryCall(title, TRUE, Len(results))
    IN IF fault = "query"
       THEN [pages |-> pages, calls |-> <<QueryCall(title, FALSE, 0)>>, ret |-> Raised]
       ELSE IF results # <<>>
       THEN [pages |-> pages, calls |-> <<q>>, ret |-> Found(results[1].id)]
       ELSE IF fault = "create"
       THEN [pages |-> pages, calls |-> <<q, CreateCall(title, FALSE)>>, ret |-> Raised]
       ELSE IF fault = "create_stored"
       THEN [pages |-> create(pages, title), calls |-> <<q, CreateCall(title, FALSE)>>,
             ret |-> Raised]
       ELSE [pages |-> create(pages, title), calls |-> <<q, CreateCall(title, TRUE)>>,
             ret |-> Found(Len(pages) + 1)]

\* The collection before the first run: empty, or holding an unrelated page
StartPages == { <<>>, <<Page(1, "Notes")>> }

InitNotion ==
    /\ n_pc = "run" /\ n_calls = <<>> /\ n_results = <<>>
    /\ n_pages \in StartPages
    /\ IdlePublish
    /\ IdleFetch /\ IdleScore /\ IdleSumm /\ IdleClean /\ IdleIntro /\ IdleMain

\* one run's call of find_or_create_daily_page
FindOrCreate(title, fault) ==
    /\ n_pc = "run"
    /\ Len(n_results) < MaxCalls
    /\ LET r == find_or_create_daily_page(n_pages, title, fault)
       IN /\ n_pages' = r.pages
          /\ n_calls' = n_calls \o r.calls
          /\ n_results' = Append(n_results, [title |-> title, ret |-> r.ret])
    /\ UNCHANGED <<n_pc, publishVars>>
    /\ UNCHANGED <<fetchVars, scoreVars, summVars, cleanVars, introVars, mainVars>>

NextNotion == \E title \in Titles, fault \in Faults : FindOrCreate(title, fault)

SpecNotion == InitNotion /\ [][NextNotion]_vars

(***************************************************************************)
(* Properties of find_or_create_daily_page                                 *)
(***************************************************************************)
PagesTitled(pages, t) == { i \in 1..Len(pages) : pages[i].title = t }

\* C19: over any sequence of find_or_create_daily_page calls on one
\* collection, a create request is sent only right after an exact-title query
\* that returned nothing; once a page titled T exists, a call with T whose
\* query succeeds returns that page's id and no call with T adds a page; so no
\* two pages of the collection ever share a title.
C19_FindOrCreateIdempotent ==
    /\ [](\A t \in Titles : Cardinality(PagesTitled(n_pages, t)) <= 1)
    /\ [](\A k \in 1..Len(n_calls) :
            n_calls[k].op = "create" =>
                /\ k > 1 /\ n_calls[k - 1].op = "query" /\ n_calls[k - 1].ok
                /\ n_calls[k - 1].title = n_calls[k].title /\ n_calls[k - 1].n = 0)
    /\ [][\A t \in Titles, f \in Faults :
            (FindOrCreate(t, f) /\ PagesTitled(n_pages, t) # {}) =>
                /\ n_pages' = n_pages
                /\ f # "query" =>
                      n_results'[Len(n_results')].ret
                          = Found(n_pages[CHOOSE i \in PagesTitled(n_pages, t) : TRUE].id)]_vars

\* C19 witness: three calls with the same title: the first created page 2
\* next to an unrelated page, the second and third found it.
C19_Witness ==
    /\ Len(n_results) = 3 /\ Len(n_pages) = 2
    /\ \A k \in 1..3 : n_results[k] = [title |-> "2025-09-22", ret |-> Found(2)]
    /\ Len(n_calls) = 4

(***************************************************************************)
(* Properties of the generated texts                                       *)
(***************************************************************************)
\* A text, given by its parts, that has no character at all
EmptyText(parts) ==
    \A i \in 1..Len(parts) :
        \/ parts[i].k = "chars" /\ parts[i].chars = <<>>
        \/ parts[i].k = "lit" /\ parts[i].lit = ""

\* C18: summarize_items and generate_morning_intro always return, and whatever
\* the generation request did (raised, gave no content, gave an empty or
\* blank text) the text they return is not empty.
C18_NonEmptyText ==
    /\ m_pc = "done" => ~EmptyText(m_out)
    /\ g_pc = "done" => ~EmptyText(g_out)

(***************************************************************************)
(* main (src/app/main.py)                                                  *)
(* The environment is a function from the names that are set to their      *)
(* values.  Every call to a collaborator is logged in p_calls as           *)
(* [op, arg, page, ok, data]: arg is the section (or morning_intro) the     *)
(* call is for, page the page id it addresses, data what it was handed.    *)
(***************************************************************************)
MaxSectionItems == 2            \* items a section has after scoring

None == "None"
Required == {"NOTION_TOKEN", "NOTION_DAILY_DB_ID", "OPENAI_API_KEY"}

\* os.getenv(k, default)
getenv(env, k, default) == IF k \in DOMAIN env THEN env[k] ELSE default

\* int(threshold_str): the strings of the model that int() accepts
IntStrings == {"70", "50"}
IntOfString(x) == IF x = "70" THEN 70 ELSE 50

\* validate_environment without the check of the required values
validate_environment_unchecked(env) ==
    [ok |-> TRUE,
     config |-> [NOTION_TOKEN |-> getenv(env, "NOTION_TOKEN", None),
                 NOTION_DAILY_DB_ID |-> getenv(env, "NOTION_DAILY_DB_ID", None),
                 OPENAI_API_KEY |-> getenv(env, "OPENAI_API_KEY", None),
                 GITHUB_REPO |-> getenv(env, "GITHUB_REPO", None),
                 NEWS_IMPORTANCE_THRESHOLD |-> 70]]

\* validate_environment(): [ok, config]
validate_environment(env) ==
    LET missing == { k \in Required : getenv(env, k, None) \in {None, ""} }
        threshold_str == getenv(env, "NEWS_IMPORTANCE_THRESHOLD", "70")
    IN IF missing # {}
       THEN [ok |-> FALSE, config |-> <<>>]
       ELSE [ok |-> TRUE,
             config |-> [NOTION_TOKEN |-> env["NOTION_TOKEN"],
                         NOTION_DAILY_DB_ID |-> env["NOTION_DAILY_DB_ID"],
                         OPENAI_API_KEY |-> env["OPENAI_API_KEY"],
                         GITHUB_REPO |-> getenv(env, "GITHUB_REPO", None),
                         NEWS_IMPORTANCE_THRESHOLD |->
                             IF threshold_str \in IntStrings
                             THEN IntOfString(threshold_str) ELSE 70]]

\* repo_raw_url(repo, branch, path) raises unless repo is 'owner/repo'
RepoValid(repo) == repo = "owner/repo"

\* The environments a run can start in
RequiredValues == {"", "secret"}
Environments ==
    { e \in UNION { [D -> {"", "secret", "owner/repo", "50", "abc"}] :
                      D \in SUBSET (Required \cup {"GITHUB_REPO", "NEWS_IMPORTANCE_THRESHOLD"}) } :
        /\ \A k \in DOMAIN e \cap Required : e[k] \in RequiredValues
        /\ "GITHUB_REPO" \in DOMAIN e => e["GITHUB_REPO"] = "owner/repo"
        /\ "NEWS_IMPORTANCE_THRESHOLD" \in DOMAIN e => e["NEWS_IMPORTANCE_THRESHOLD"] \in {"50", "abc"} }

\* DEFAULT_FEEDS, two of its sections in insertion order
MainSections == <<SecGuardian, SecMontreal>>
IntroName == <<"m", "o", "r", "n", "i", "n", "g", "_", "i", "n", "t", "r", "o">>
date_str == "2025-09-22"

Call(op, arg, ok) == [op |-> op, arg |-> arg, page |-> 0, ok |-> ok, data |-> <<>>]
PageCall(op, page, ok, data) == [op |-> op, arg |-> <<>>, page |-> page, ok |-> ok, data |-> data]

\* The i-th item of a section of scored_sections
MainItem(i) == SetScore(FetchedItem(i), 120 - 30 * i, "r")
ItemLists == { [i \in 1..n |-> MainItem(i)] : n \in {0, MaxSectionItems} }

\* What the generation request of a section or of the intro does
MainReplies == { [kind |-> "raise", text |-> <<>>], [kind |-> "text", text |-> <<"o", "k">>] }
\* Which call of the audio steps fails
AudioFaults == {"none", "tts", "save_mp3", "mp3_to_ogg", "save_ogg"}

\* The calls of the audio steps of one unit (a section or the intro) up to the
\* first failure of a required step; the OGG steps are optional
AudioCalls(arg, fault, repo) ==
    <<Call("tts", arg, fault # "tts")>>
    \o (IF fault = "tts" THEN <<>>
        ELSE <<Call("save_mp3", arg, fault # "save_mp3")>>
             \o (IF fault = "save_mp3" THEN <<>>
                 ELSE <<Call("repo_raw_url", arg, RepoValid(repo))>>
                      \o (IF ~RepoValid(repo) THEN <<>>
                          ELSE <<Call("mp3_to_ogg", arg, fault # "mp3_to_ogg")>>
                               \o (IF fault = "mp3_to_ogg" THEN <<>>
                                   ELSE <<Call("save_ogg", arg, fault # "save_ogg")>>))))
\* the audio steps with the OGG steps required too
AudioOk_requiring_ogg(fault, repo) == fault = "none" /\ RepoValid(repo)
\* the audio steps reached the assignment of the URL
AudioOk(fault, repo) == fault \notin {"tts", "save_mp3"} /\ RepoValid(repo)

Block(section, text) == [section |-> section, text |-> text]
ProcessingFailed(section) ==
    Block(section, <<Lit("## "), Chars(Title(section)),
                     Lit("\n_Processing failed for this section._")>>)

InitMain ==
    /\ p_pc = "validate" /\ config = <<>> /\ p_calls = <<>> /\ scored_sections = <<>>
    /\ p_idx = 0 /\ markdown_sections = <<>> /\ section_audio_urls = <<>>
    /\ intro_audio_url = None /\ page_id = 0 /\ p_exit = -1
    /\ p_env \in Environments
    /\ n_pc = "idle" /\ n_calls = <<>> /\ n_results = <<>>
    /\ n_pages \in { <<>>, <<Page(1, date_str)>> }
    /\ IdlePublish
    /\ IdleFetch /\ IdleScore /\ IdleSumm /\ IdleClean /\ IdleIntro

\* main, lines 130-146: validate the environment or exit
Validate ==
    /\ p_pc = "validate"
    /\ LET r == validate_environment(p_env)
       IN IF r.ok
          THEN /\ config' = r.config /\ p_pc' = "clients" /\ UNCHANGED p_exit
          ELSE /\ p_exit' = 1 /\ p_pc' = "exit" /\ UNCHANGED config
    /\ UNCHANGED <<p_env, p_calls, scored_sections, p_idx, markdown_sections,
                   section_audio_urls, intro_audio_url, page_id>>
    /\ UNCHANGED <<fetchVars, scoreVars, summVars, cleanVars, introVars, notionVars>>

\* main, lines 148-155: create the two clients or exit
InitClients(fault) ==
    /\ p_pc = "clients"
    /\ p_calls' = p_calls
          \o <<Call("Notion", <<>>, fault # "Notion")>>
          \o (IF fault = "Notion" THEN <<>> ELSE <<Call("OpenAI", <<>>, fault # "OpenAI")>>)
    /\ IF fault = "none"
       THEN p_pc' = "fetch" /\ UNCHANGED p_exit
       ELSE p_pc' = "exit" /\ p_exit' = 1
    /\ UNCHANGED <<p_env, config, scored_sections, p_idx, markdown_sections,
                   section_audio_urls, intro_audio_url, page_id>>
    /\ UNCHANGED <<fetchVars, scoreVars, summVars, cleanVars, introVars, notionVars>>

\* main, lines 157-172: fetch and score every section or exit
FetchAndScore(ok, lists) ==
    /\ p_pc = "fetch"
    /\ p_calls' = Append(p_calls, Call("fetch_feeds", <<>>, ok))
          \o (IF ok THEN [i \in 1..Len(MainSections) |-> Call("score_items", MainSections[i], TRUE)]
              ELSE <<>>)
    /\ IF ok
       THEN /\ scored_sections' = [i \in 1..Len(MainSections) |->
                                     [section |-> MainSections[i], items |-> lists[i]]]
            /\ p_pc' = "mkdir" /\ UNCHANGED p_exit
       ELSE /\ p_pc' = "exit" /\ p_exit' = 1 /\ UNCHANGED scored_sections
    /\ UNCHANGED <<p_env, config, p_idx, markdown_sections,
                   section_audio_urls, intro_audio_url, page_id>>
    /\ UNCHANGED <<fetchVars, scoreVars, summVars, cleanVars, introVars, notionVars>>

\* main, lines 175-182: create the day's directory or exit
EnsureDir(ok) ==
    /\ p_pc = "mkdir"
    /\ p_calls' = Append(p_calls, Call("ensure_dir", <<>>, ok))
    /\ IF ok THEN p_pc' = "sections" /\ UNCHANGED p_exit
       ELSE p_pc' = "exit" /\ p_exit' = 1
    /\ UNCHANGED <<p_env, config, scored_sections, p_idx, markdown_sections,
                   section_audio_urls, intro_audio_url, page_id>>
    /\ UNCHANGED <<fetchVars, scoreVars, summVars, cleanVars, introVars, notionVars>>

\* the section loop without its try/except: a failed audio step ends the run
ProcessSection_escalating(reply, fault) ==
    /\ p_pc = "sections"
    /\ p_idx < Len(scored_sections)
    /\ LET section == scored_sections[p_idx + 1].section
           its == scored_sections[p_idx + 1].items
           r == summarize(section, its, max_items_default, reply)
           generated == its = <<>> \/ reply.kind = "text"
       IN /\ p_calls' = Append(p_calls, Call("summarize_items", section, generated))
                \o AudioCalls(section, fault, config.GITHUB_REPO)
          /\ markdown_sections' = Append(markdown_sections, Block(section, r.out))
          /\ IF AudioOk(fault, config.GITHUB_REPO)
             THEN /\ section_audio_urls' = Append(section_audio_urls, section)
                  /\ UNCHANGED <<p_pc, p_exit>>
             ELSE /\ p_pc' = "exit" /\ p_exit' = 1
                  /\ UNCHANGED section_audio_urls
    /\ p_idx' = p_idx + 1
    /\ UNCHANGED <<p_env, config, scored_sections, intro_audio_url, page_id>>
    /\ UNCHANGED <<fetchVars, scoreVars, summVars, cleanVars, introVars, notionVars>>

\* main, lines 187-216: one iteration of the section loop
ProcessSection(reply, fault) ==
    /\ p_pc = "sections"
    /\ p_idx < Len(scored_sections)
    /\ LET section == scored_sections[p_idx + 1].section
           its == scored_sections[p_idx + 1].items
           r == summarize(section, its, max_items_default, reply)
           generated == its = <<>> \/ reply.kind = "text"
       IN /\ p_calls' = Append(p_calls, Call("summarize_items", section, generated))
                \o AudioCalls(section, fault, config.GITHUB_REPO)
          /\ IF AudioOk(fault, config.GITHUB_REPO)
             THEN /\ markdown_sections' = Append(markdown_sections, Block(section, r.out))
                  /\ section_audio_urls' = Append(section_audio_urls, section)
             ELSE /\ markdown_sections' = markdown_sections
                         \o <<Block(section, r.out), ProcessingFailed(section)>>
                  /\ UNCHANGED section_audio_urls
    /\ p_idx' = p_idx + 1
    /\ UNCHANGED <<p_pc, p_env, config, scored_sections, intro_audio_url, page_id, p_exit>>
    /\ UNCHANGED <<fetchVars, scoreVars, summVars, cleanVars, introVars, notionVars>>

\* main, lines 220-224: sections_summary
Min(a, b) == IF a < b THEN a ELSE b
sections_summary(scoredSecs, threshold) ==
    [i \in 1..Len(scoredSecs) |->
        [section |-> scoredSecs[i].section,
         count |-> Min(Cardinality({ k \in 1..Len(scoredSecs[i].items) :
                                       scoredSecs[i].items[k].importance >= threshold }), 5)]]

\* main, lines 220-258: the morning intro, after the last section
MorningBriefing(reply, fault) ==
    /\ p_pc = "sections"
    /\ p_idx = Len(scored_sections)
    /\ LET summary == sections_summary(scored_sections, config.NEWS_IMPORTANCE_THRESHOLD)
           r == generate_morning_intro(summary, reply)
       IN /\ p_calls' = Append(p_calls, [Call("generate_morning_intro", IntroName, reply.kind = "text")
                                           EXCEPT !.data = summary])
                \o AudioCalls(IntroName, fault, config.GITHUB_REPO)
          /\ IF AudioOk(fault, config.GITHUB_REPO)
             THEN /\ intro_audio_url' = "url"
                  /\ markdown_sections' =
                        <<Block(IntroName, <<Lit("## Morning Briefing\n\n")>> \o r.out)>>
                        \o markdown_sections
             ELSE /\ intro_audio_url' = None
                  /\ markdown_sections' =
                        <<Block(IntroName, <<Lit("## Morning Briefing\n_Good morning! Here's your news for today._")>>)>>
                        \o markdown_sections
    /\ p_pc' = "find"
    /\ UNCHANGED <<p_env, config, scored_sections, p_idx, section_audio_urls, page_id, p_exit>>
    /\ UNCHANGED <<fetchVars, scoreVars, summVars, cleanVars, introVars, notionVars>>

\* main, lines 261-265: find or create the page of the day, or exit
FindPage(fault) ==
    /\ p_pc = "find"
    /\ LET r == find_or_create_daily_page(n_pages, date_str, fault)
       IN /\ n_pages' = r.pages
          /\ n_calls' = n_calls \o r.calls
          /\ n_results' = Append(n_results, [title |-> date_str, ret |-> r.ret])
          /\ p_calls' = Append(p_calls, PageCall("find_or_create_daily_page", r.ret.page_id,
                                                 r.ret.kind = "page", <<>>))
          /\ IF r.ret.kind = "page"
             THEN page_id' = r.ret.page_id /\ p_pc' = "audio" /\ UNCHANGED p_exit
             ELSE p_pc' = "exit" /\ p_exit' = 1 /\ UNCHANGED page_id
    /\ UNCHANGED <<p_env, config, scored_sections, p_idx, markdown_sections,
                   section_audio_urls, intro_audio_url, n_pc, publishVars>>
    /\ UNCHANGED <<fetchVars, scoreVars, summVars, cleanVars, introVars>>

\* main, lines 267-277: the audio blocks, appended first
\* an audio block for the intro and for every section, whatever happened
audio_blocks_for_all == <<IntroName>> \o MainSections
audio_blocks == (IF intro_audio_url # None THEN <<IntroName>> ELSE <<>>) \o section_audio_urls
\* the audio append with its failure swallowed
AppendAudio_ignoring_failure(ok) ==
    /\ p_pc = "audio"
    /\ audio_blocks = <<>> => ok          \* nothing is sent, nothing can fail
    /\ p_calls' = Append(p_calls, PageCall("append_audio_section", page_id, ok, audio_blocks))
    /\ p_pc' = "markdown"
    /\ UNCHANGED <<p_env, config, scored_sections, p_idx, markdown_sections,
                   section_audio_urls, intro_audio_url, page_id, p_exit>>
    /\ UNCHANGED <<fetchVars, scoreVars, summVars, cleanVars, introVars, notionVars>>
AppendAudio(ok) ==
    /\ p_pc = "audio"
    /\ audio_blocks = <<>> => ok          \* nothing is sent, nothing can fail
    /\ p_calls' = Append(p_calls, PageCall("append_audio_section", page_id, ok, audio_blocks))
    /\ IF ok THEN p_pc' = "markdown" /\ UNCHANGED p_exit
       ELSE p_pc' = "exit" /\ p_exit' = 1
    /\ UNCHANGED <<p_env, config, scored_sections, p_idx, markdown_sections,
                   section_audio_urls, intro_audio_url, page_id>>
    /\ UNCHANGED <<fetchVars, scoreVars, summVars, cleanVars, introVars, notionVars>>

\* the text-body append with its failure swallowed
AppendMarkdown_ignoring_failure(ok) ==
    /\ p_pc = "markdown"
    /\ p_calls' = Append(p_calls, PageCall("append_markdown", page_id, ok, markdown_sections))
    /\ p_pc' = "comment"
    /\ UNCHANGED <<p_env, config, scored_sections, p_idx, markdown_sections,
                   section_audio_urls, intro_audio_url, page_id, p_exit>>
    /\ UNCHANGED <<fetchVars, scoreVars, summVars, cleanVars, introVars, notionVars>>

\* main, lines 280-281: the text body
AppendMarkdown(ok) ==
    /\ p_pc = "markdown"
    /\ p_calls' = Append(p_calls, PageCall("append_markdown", page_id, ok, markdown_sections))
    /\ IF ok THEN p_pc' = "comment" /\ UNCHANGED p_exit
       ELSE p_pc' = "exit" /\ p_exit' = 1
    /\ UNCHANGED <<p_env, config, scored_sections, p_idx, markdown_sections,
                   section_audio_urls, intro_audio_url, page_id>>
    /\ UNCHANGED <<fetchVars, scoreVars, summVars, cleanVars, introVars, notionVars>>

\* main, lines 284-292: the notification comment, then the end of the run
AddComment(ok) ==
    /\ p_pc = "comment"
    /\ p_calls' = Append(p_calls, PageCall("add_comment", page_id, ok, <<>>))
    /\ IF ok THEN p_pc' = "completed" /\ p_exit' = 0
       ELSE p_pc' = "exit" /\ p_exit' = 1
    /\ UNCHANGED <<p_env, config, scored_sections, p_idx, markdown_sections,
                   section_audio_urls, intro_audio_url, page_id>>
    /\ UNCHANGED <<fetchVars, scoreVars, summVars, cleanVars, introVars, notionVars>>

NextMain ==
    \/ Validate
    \/ \E fault \in {"none", "Notion", "OpenAI"} : InitClients(fault)
    \/ \E ok \in BOOLEAN, lists \in [1..Len(MainSections) -> ItemLists] : FetchAndScore(ok, lists)
    \/ \E ok \in BOOLEAN : EnsureDir(ok)
    \/ \E reply \in MainReplies, fault \in AudioFaults : ProcessSection(reply, fault)
    \/ \E reply \in MainReplies, fault \in AudioFaults : MorningBriefing(reply, fault)
    \/ \E fault \in Faults : FindPage(fault)
    \/ \E ok \in BOOLEAN : AppendAudio(ok)
    \/ \E ok \in BOOLEAN : AppendMarkdown(ok)
    \/ \E ok \in BOOLEAN : AddComment(ok)

SpecMain == InitMain /\ [][NextMain]_vars

\* The runs where every enabled step is eventually taken
SpecMainLive == SpecMain /\ WF_vars(NextMain)

(***************************************************************************)
(* Properties of main                                                      *)
(***************************************************************************)
\* The required values that are unset or empty in the environment
MissingIn(env) == { k \in Required : k \notin DOMAIN env \/ env[k] = "" }

\* C14: when one of the three required values is unset or empty the run has
\* ended with exit status 1 right after validation, with no client created
\* and no feed, model, speech or workspace call made; when all three are set
\* validation succeeds (the run goes on to create its clients) whichever
\* optional values are unset.
C14_RequiredConfiguration ==
    p_pc # "validate" =>
        /\ MissingIn(p_env) # {} =>
              /\ p_pc = "exit" /\ p_exit = 1
              /\ p_calls = <<>> /\ n_calls = <<>>
        /\ MissingIn(p_env) = {} =>
              /\ config # <<>>
              /\ p_pc = "exit" => p_calls # <<>>

\* C14 witness: a run with the model key unset and the two workspace values
\* set has ended.
C14_Witness ==
    /\ p_pc = "exit"
    /\ DOMAIN p_env = {"NOTION_TOKEN", "NOTION_DAILY_DB_ID"}
    /\ p_env["NOTION_TOKEN"] = "secret" /\ p_env["NOTION_DAILY_DB_ID"] = "secret"

PublishOps == {"find_or_create_daily_page", "append_audio_section", "append_markdown", "add_comment"}

\* C15: a failed find-or-create, audio append, text append or comment call is
\* the last call of the run, and the run has then ended with exit status 1
\* and not as completed; the same holds for the failed query or create
\* request inside find-or-create.
C15_PublishFailureFatal ==
    /\ \A k \in 1..Len(p_calls) :
          (p_calls[k].op \in PublishOps /\ ~p_calls[k].ok) =>
              /\ k = Len(p_calls)
              /\ p_pc = "exit" /\ p_exit = 1
    /\ \A k \in 1..Len(n_calls) :
          ~n_calls[k].ok => k = Len(n_calls) /\ p_pc = "exit" /\ p_exit = 1

\* C15 witness: the text-body append failed after a successful audio append.
C15_Witness ==
    /\ p_pc = "exit" /\ Len(p_calls) > 2
    /\ p_calls[Len(p_calls)].op = "append_markdown" /\ ~p_calls[Len(p_calls)].ok
    /\ p_calls[Len(p_calls) - 1].op = "append_audio_section" /\ p_calls[Len(p_calls) - 1].ok

\* The sections whose summarize_items call is logged, in call order
RECURSIVE Attempted(_)
Attempted(calls) ==
    IF calls = <<>> THEN <<>>
    ELSE IF Head(calls).op = "summarize_items" THEN <<Head(calls).arg>> \o Attempted(Tail(calls))
    ELSE Attempted(Tail(calls))

\* C16: no failure of a section's summary, narration or file write, and no
\* failure of the intro, ends the run: from the section loop the run only
\* moves on within the loop or to the publish phase, it does get to the
\* publish phase, and there every section has been attempted in order and the
\* intro block is in the brief.
C16_SectionFailuresContained ==
    /\ [][p_pc = "sections" => (p_pc' \in {"sections", "find"} /\ p_exit' = -1)]_vars
    /\ [](p_pc = "find" =>
            /\ Attempted(p_calls) = MainSections
            /\ markdown_sections # <<>> /\ markdown_sections[1].section = IntroName)
    /\ (p_pc = "sections" ~> p_pc = "find")

\* C16 witness: the publish phase is reached after narration failed for both
\* sections and for the intro.
C16_Witness ==
    /\ p_pc = "find"
    /\ \A arg \in {SecGuardian, SecMontreal, IntroName} :
          \E k \in 1..Len(p_calls) : p_calls[k] = Call("tts", arg, FALSE)

\* The blocks of the brief that belong to one section
BlocksOf(section) ==
    SelectSeq(markdown_sections, LAMBDA b : b.section = section)
IsPlaceholder(b) ==
    /\ Len(b.text) >= 3
    /\ b.text[3] \in { Lit("\n_Processing failed for this section._"),
                       Lit("\n_Summary generation failed. ") }

\* C17: a section whose summarisation or narration failed is rendered with a
\* failure placeholder under its heading instead of generated content: the
\* brief holds a placeholder for it and no generated summary.
C17_FailedSectionPlaceholderOnly ==
    \A k \in 1..Len(p_calls) :
        (p_calls[k].op \in {"summarize_items", "tts"} /\ ~p_calls[k].ok
            /\ p_calls[k].arg # IntroName) =>
            /\ BlocksOf(p_calls[k].arg) # <<>>
            /\ \A i \in 1..Len(BlocksOf(p_calls[k].arg)) : IsPlaceholder(BlocksOf(p_calls[k].arg)[i])

CallsOf(op) == { k \in 1..Len(p_calls) : p_calls[k].op = op }

\* C20: a run posts at most one comment; the comment addresses the page id
\* that find-or-create returned, and it comes after a successful
\* find-or-create, after the audio append (if it was sent) succeeded and
\* after a successful text append; a run that failed before posts none.
C20_CommentOnceAfterPublish ==
    /\ Cardinality(CallsOf("add_comment")) <= 1
    /\ \A k \in CallsOf("add_comment") :
          /\ \E f \in CallsOf("find_or_create_daily_page") :
                /\ p_calls[f].ok /\ p_calls[f].page = p_calls[k].page
                /\ n_results # <<>> /\ n_results[Len(n_results)].ret = Found(p_calls[k].page)
                /\ \E a \in CallsOf("append_audio_section"), m \in CallsOf("append_markdown") :
                      /\ f < a /\ a < m /\ m < k
                      /\ p_calls[a].ok /\ p_calls[m].ok
                      /\ p_calls[a].page = p_calls[k].page /\ p_calls[m].page = p_calls[k].page
          /\ \A j \in 1..(k - 1) : p_calls[j].op \in PublishOps => p_calls[j].ok
          /\ k = Len(p_calls)
    /\ (p_exit = 1 /\ CallsOf("add_comment") # {}) => ~p_calls[Len(p_calls)].ok

\* C20 witness: a completed run whose page was created by find-or-create and
\* whose comment went to that page after both appends.
C20_Witness ==
    /\ p_pc = "completed" /\ p_exit = 0 /\ n_pages = <<Page(1, date_str)>>
    /\ Len(n_calls) = 2
    /\ p_calls[Len(p_calls)] = PageCall("add_comment", 1, TRUE, <<>>)
    /\ p_calls[Len(p_calls) - 1].op = "append_markdown"
    /\ p_calls[Len(p_calls) - 2].op = "append_audio_section"

\* C21: the count the morning-intro generator is handed for each section is
\* min(number of items of the section, 5): non-zero for a section that has
\* an item, 0 for a section without items.
C21_IntroCountsAreItemCounts ==
    \A k \in CallsOf("generate_morning_intro") :
        /\ Len(p_calls[k].data) = Len(scored_sections)
        /\ \A i \in 1..Len(scored_sections) :
              /\ p_calls[k].data[i].section = scored_sections[i].section
              /\ p_calls[k].data[i].count =
                    (IF Len(scored_sections[i].items) < 5
                     THEN Len(scored_sections[i].items) ELSE 5)

\* The units (sections or the intro) that have an audio reference
HasAudioUrl(arg) ==
    IF arg = IntroName THEN intro_audio_url # None
    ELSE \E i \in 1..Len(section_audio_urls) : section_audio_urls[i] = arg
InSeq(x, seq) == \E i \in 1..Len(seq) : seq[i] = x

\* C23: when the OGG conversion or the OGG file write failed for a section or
\* for the intro, its MP3 file was written before, its audio reference is
\* recorded and is among the audio blocks handed to the publisher, the
\* section has no 'Processing failed' block and the intro block is not the
\* fallback one.
C23_OggFailureHarmless ==
    \A k \in 1..Len(p_calls) :
        (p_calls[k].op \in {"mp3_to_ogg", "save_ogg"} /\ ~p_calls[k].ok) =>
            LET arg == p_calls[k].arg
            IN /\ \E j \in 1..(k - 1) : p_calls[j] = Call("save_mp3", arg, TRUE)
               /\ HasAudioUrl(arg)
               /\ \A a \in CallsOf("append_audio_section") : InSeq(arg, p_calls[a].data)
               /\ ~InSeq(ProcessingFailed(arg), markdown_sections)
               /\ arg = IntroName =>
                     \A i \in 1..Len(markdown_sections) :
                         markdown_sections[i].section = IntroName =>
                             markdown_sections[i].text[1] = Lit("## Morning Briefing\n\n")

\* C23 witness: a completed run in which the OGG file write failed for the
\* guardian section and the OGG conversion failed for the intro.
C23_Witness ==
    /\ p_pc = "completed"
    /\ InSeq(Call("save_ogg", SecGuardian, FALSE), p_calls)
    /\ InSeq(Call("mp3_to_ogg", IntroName, FALSE), p_calls)

\* C27: the text body handed to the publisher is one intro block followed by
\* exactly one block per configured section, in section order, whatever
\* failed before.
C27_OneBlockPerSection ==
    \A m \in CallsOf("append_markdown") :
        [i \in 1..Len(p_calls[m].data) |-> p_calls[m].data[i].section]
            = <<IntroName>> \o MainSections

\* Every call made so far except the building of the audio URL succeeded
ExternalCallsSucceeded ==
    \A k \in 1..Len(p_calls) : p_calls[k].op # "repo_raw_url" => p_calls[k].ok

\* C28: in a run whose required values are set and whose feed, model, speech,
\* file and workspace calls all succeed, once the intro is done no section
\* has a 'Processing failed' block, the intro block carries the generated
\* intro, and every section and the intro have an audio reference, whichever
\* optional values (GITHUB_REPO among them) are unset.
C28_CleanRunHasAudio ==
    (p_pc \in {"find", "audio", "markdown", "comment", "completed"} /\ ExternalCallsSucceeded) =>
        /\ \A i \in 1..Len(MainSections) :
              /\ ~InSeq(ProcessingFailed(MainSections[i]), markdown_sections)
              /\ HasAudioUrl(MainSections[i])
        /\ HasAudioUrl(IntroName)
        /\ markdown_sections[1].text[1] = Lit("## Morning Briefing\n\n")

\* C29: every audio reference handed to the publisher is of a section or
\* intro whose MP3 file was written before in the run; a unit whose narration
\* or MP3 write failed is not among them; and the text body is appended only
\* after the audio blocks were.
C29_AudioOnlyForWrittenFiles ==
    /\ \A a \in CallsOf("append_audio_section") :
          /\ \A i \in 1..Len(p_calls[a].data) :
                \E j \in 1..(a - 1) : p_calls[j] = Call("save_mp3", p_calls[a].data[i], TRUE)
          /\ \A j \in 1..Len(p_calls) :
                (p_calls[j].op \in {"tts", "save_mp3"} /\ ~p_calls[j].ok) =>
                    ~InSeq(p_calls[j].arg, p_calls[a].data)
    /\ \A m \in CallsOf("append_markdown") :
          \E a \in CallsOf("append_audio_section") : a < m /\ p_calls[a].ok

\* C29 witness: the text body was appended in a run where narration failed
\* for guardian: the audio blocks are those of the intro and montreal_news.
C29_Witness ==
    /\ p_pc = "comment"
    /\ InSeq(Call("tts", SecGuardian, FALSE), p_calls)
    /\ \E a \in CallsOf("append_audio_section") : p_calls[a].data = <<IntroName, SecMontreal>>

(***************************************************************************)
(* Further properties of fetch_feeds, score_items and summarize_items      *)
(***************************************************************************)
HasKey(its, key) == \E i \in 1..Len(its) : KeyOf(its[i]) = key

\* C22: whichever endpoints fail, fetch_feeds returns with one entry per
\* configured section, empty when nothing was gathered; a failing endpoint
\* only moves the section on to its next endpoint, with what was gathered
\* kept; every qualifying entry of an endpoint that is read is gathered, and
\* every gathered entry is represented in the section's output.
C22_FailedEndpointsSkipped ==
    /\ [](f_pc = "done" =>
            /\ DOMAIN result = { SectionOrder[i] : i \in 1..Len(SectionOrder) }
            /\ \A sec \in DOMAIN result :
                  /\ \A i \in 1..Len(collected[sec]) :
                        HasKey(result[sec], KeyOf(collected[sec][i]))
                  /\ collected[sec] = <<>> => result[sec] = <<>>)
    /\ [][f_failed' # f_failed =>
            /\ items' = items /\ result' = result /\ collected' = collected
            /\ f_sec' = f_sec /\ f_url' = f_url + 1 /\ f_pc' = "fetch"]_vars
    /\ [][\A e \in Entries :
            (ProcessEntry(e) /\ InWindow(e)) =>
                HasKey(items', <<Strip(e.title), Strip(e.link)>>)]_vars
    /\ [][f_sec' # f_sec => collected'[SectionOrder[f_sec]] = items]_vars

\* C22 witness: the call has returned although the first endpoint of ai and
\* the only endpoint of bbc failed: ai holds what its second endpoint
\* delivered, bbc is empty.
C22_Witness ==
    /\ f_pc = "done" /\ f_failed = {"u1", "u3"}
    /\ Len(result["ai"]) >= 2 /\ result["bbc"] = <<>>

\* C26: score_items on an empty list issues no scoring request and returns
\* an empty list.
C26_EmptyInputNoRequest ==
    s_items = <<>> =>
        /\ s_requests = 0 /\ s_replies = <<>> /\ scored = <<>>
        /\ s_pc \in {"loop", "done"}

\* C26 witness: the call on the empty list has returned.
C26_Witness ==
    s_pc = "done" /\ s_items = <<>> /\ scored = <<>> /\ s_requests = 0

\* C25: for a non-empty scored list and a limit N >= 1, summarize_items
\* issues exactly one generation request; its bullet list is the titles, and
\* nothing else, of the first min(N, length) items in the order of the list;
\* the count line of the returned text reports min(N, length); the
\* highest-scored item of the section is the first bullet.
C25_TopItemsSummarized ==
    (m_pc = "done" /\ m_items # <<>>) =>
        LET k == Min(m_max, Len(m_items))
        IN /\ m_requests = 1
           /\ Len(m_user) = k
           /\ \A i \in 1..k :
                 m_user[i] = <<Lit("- **"), Chars(m_items[i].title), Lit("**")>>
           /\ \A i \in 1..k : \A j \in 1..Len(m_items) :
                 \A q \in 1..Len(m_user[i]) : m_user[i][q] # Chars(m_items[j].url)
           /\ m_out[3] = Lit("\n") => m_out[8] = Num(k)
           /\ \A j \in 1..Len(m_items) :
                 /\ m_items[1].importance >= m_items[j].importance
                 /\ (j > k) => \A i \in 1..k : m_items[i].importance >= m_items[j].importance
           /\ m_user[1][2] = Chars(m_items[1].title)

\* C25 witness: six scored items under the default limit of five: one
\* request with five bullets was sent and the count line says 5.
C25_Witness ==
    /\ m_pc = "done" /\ Len(m_items) = 6 /\ m_max = max_items_default
    /\ m_requests = 1 /\ Len(m_user) = 5
    /\ m_out[3] = Lit("\n") /\ m_out[8] = Num(5)

(***************************************************************************)
(* append_markdown and append_audio_section (src/app/notion_utils.py)      *)
(* A block is [type, rich_text, children]; rich_text is the sequence of    *)
(* [content, bold] segments parse_rich_text returns.  An emoji is one      *)
(* character, written by its name.                                         *)
(***************************************************************************)
MaxLines == 3                   \* lines of a text handed to append_markdown
MaxRuns == 2                    \* runs of the publishing step in one behaviour

Contains(s, lit) == \E i \in 1..(Len(s) + 1) : MatchLit(s, i, lit)

\* The line boundaries of str.splitlines(); "\r\n" is one boundary
IsLineEnd(c) ==
    c \in { "\n", "\r", "\f", "\\x0b", "\\x1c", "\\x1d", "\\x1e", "\\x85", "\\u2028",
            "\\u2029" }
RECURSIVE SkipToLineEnd(_, _)
SkipToLineEnd(s, i) ==
    IF i <= Len(s) /\ ~IsLineEnd(s[i]) THEN SkipToLineEnd(s, i + 1) ELSE i

\* str.splitlines()
RECURSIVE SplitLines(_)
SplitLines(s) ==
    IF s = <<>> THEN <<>>
    ELSE LET e == SkipToLineEnd(s, 1)
             n == IF MatchLit(s, e, <<"\r", "\n">>) THEN e + 2 ELSE e + 1
         IN <<SubSeq(s, 1, e - 1)>> \o SplitLines(SubSeq(s, n, Len(s)))

Seg(c, b) == [content |-> c, bold |-> b]
NotionBlock(type, rich_text, children) ==
    [type |-> type, rich_text |-> rich_text, children |-> children]

\* bold_pattern \*\*([^*]+)\*\* at index i: the index after the match, or 0
RECURSIVE SkipNonStar(_, _)
SkipNonStar(s, i) == IF i <= Len(s) /\ s[i] # "*" THEN SkipNonStar(s, i + 1) ELSE i
BoldEnd(s, i) ==
    LET p == SkipNonStar(s, i + 2)
    IN IF MatchLit(s, i, <<"*", "*">>) /\ p > i + 2 /\ MatchLit(s, p, <<"*", "*">>)
       THEN p + 2 ELSE 0

\* the loop over re.finditer and the remaining text; start is current_pos
RECURSIVE RichFrom(_, _, _)
RichFrom(s, i, start) ==
    IF i > Len(s)
    THEN IF start <= Len(s) THEN <<Seg(SubSeq(s, start, Len(s)), FALSE)>> ELSE <<>>
    ELSE IF BoldEnd(s, i) # 0
    THEN (IF i > start THEN <<Seg(SubSeq(s, start, i - 1), FALSE)>> ELSE <<>>)
         \o <<Seg(SubSeq(s, i + 2, BoldEnd(s, i) - 3), TRUE)>>
         \o RichFrom(s, BoldEnd(s, i), BoldEnd(s, i))
    ELSE RichFrom(s, i + 1, start)
parse_rich_text(s) ==
    IF RichFrom(s, 1, 1) # <<>> THEN RichFrom(s, 1, 1) ELSE <<Seg(s, FALSE)>>

\* the first section of section_emojis found in the title, with a blank
ToggleEmoji(title) ==
    CASE Contains(title, <<"M", "o", "r", "n", "i", "n", "g", " ", "B", "r", "i", "e", "f", "i", "n", "g">>) -> <<":sunrise:", " ">>
      [] Contains(title, <<"G", "u", "a", "r", "d", "i", "a", "n">>) -> <<":classical_building:", " ">>
      [] Contains(title, <<"B", "B", "C">>) -> <<":television:", " ">>
      [] Contains(title, <<"M", "o", "n", "t", "r", "e", "a", "l", " ", "N", "e", "w", "s">>) -> <<":maple_leaf:", " ">>
      [] Contains(title, <<"A", "I">>) -> <<":robot:", " ">>
      [] OTHER -> <<>>

\* the emoji chain of a bullet
BulletEmoji(content) ==
    CASE Contains(content, <<"W", "h", "y", " ", "i", "t", " ", "m", "a", "t", "t", "e", "r", "s">>) -> <<":bulb:", " ">>
      [] Contains(content, <<"D", "a", "t", "e", ":">>) -> <<":calendar:", " ">>
      [] Contains(content, <<"B", "r", "e", "a", "k", "i", "n", "g", ":">>) \/ Contains(content, <<"B", "R", "E", "A", "K", "I", "N", "G", ":">>) -> <<":rotating_light:", " ">>
      [] Contains(content, <<"S", "c", "o", "t", "l", "a", "n", "d">>) -> <<":scotland:", " ">>
      [] Contains(content, <<"M", "o", "n", "t", "r", "e", "a", "l">>) -> <<":maple_leaf:", " ">>
      [] Contains(content, <<"A", "I">>) \/ Contains(content, <<"T", "e", "c", "h">>) -> <<":robot:", " ">>
      [] Contains(content, <<"C", "l", "i", "m", "a", "t", "e">>) \/ Contains(content, <<"E", "n", "v", "i", "r", "o", "n", "m", "e", "n", "t">>) -> <<":earth:", " ">>
      [] Contains(content, <<"C", "u", "l", "t", "u", "r", "e">>) \/ Contains(content, <<"A", "r", "t">>) -> <<":art:", " ">>
      [] OTHER -> <<>>

\* the emoji chain of a paragraph
ParagraphEmoji(content) ==
    CASE Contains(content, <<"G", "o", "o", "d", " ", "m", "o", "r", "n", "i", "n", "g">>) -> <<":sun:", " ">>
      [] Contains(Lower(content), <<"w", "e", "a", "t", "h", "e", "r">>) -> <<":sun_behind_cloud:", " ">>
      [] Contains(Lower(content), <<"z", "e", "n">>) \/ Contains(Lower(content), <<"c", "a", "l", "m">>) -> <<":lotus:", " ">>
      [] Contains(Lower(content), <<"c", "o", "u", "n", "t">>)
            /\ \E n \in {"1", "2", "3"} : Contains(content, <<n>>) -> <<":numbers:", " ">>
      [] OTHER -> <<>>

IsHeadingLine(line) == MatchLit(line, 1, <<"#", "#", " ">>)
IsBulletLine(line) == ~IsHeadingLine(line) /\ MatchLit(line, 1, <<"-", " ">>)
IsBlankLine(line) == ~IsHeadingLine(line) /\ ~IsBulletLine(line) /\ Strip(line) = <<>>

ToggleOf(line) ==
    LET title == Strip(SubSeq(line, 4, Len(line)))
    IN NotionBlock("toggle", parse_rich_text(ToggleEmoji(title) \o title), <<>>)
BulletOf(line) ==
    LET content == Strip(SubSeq(line, 3, Len(line)))
    IN NotionBlock("bulleted_list_item", parse_rich_text(BulletEmoji(content) \o content), <<>>)
ParagraphOf(line) ==
    NotionBlock("paragraph", parse_rich_text(ParagraphEmoji(line) \o line), <<>>)

\* finalize_toggle(): blocks with the open toggle, if it has content
finalize_toggle(blocks, current_toggle, current_toggle_content) ==
    IF current_toggle # <<>> /\ current_toggle_content # <<>>
    THEN Append(blocks, [current_toggle[1] EXCEPT !.children = current_toggle_content])
    ELSE blocks

\* "for line in md_text.splitlines()" from line i on, then the last
\* finalize_toggle(); current_toggle is <<>> for None, else <<toggle>>
RECURSIVE BlocksFrom(_, _, _, _, _)
BlocksFrom(lines, i, blocks, current_toggle, current_toggle_content) ==
    IF i > Len(lines)
    THEN finalize_toggle(blocks, current_toggle, current_toggle_content)
    ELSE IF IsHeadingLine(lines[i])
    THEN BlocksFrom(lines, i + 1,
                    finalize_toggle(blocks, current_toggle, current_toggle_content),
                    <<ToggleOf(lines[i])>>, <<>>)
    ELSE IF IsBlankLine(lines[i])
    THEN BlocksFrom(lines, i + 1, blocks, current_toggle, current_toggle_content)
    ELSE LET b == IF IsBulletLine(lines[i]) THEN BulletOf(lines[i])
                  ELSE ParagraphOf(lines[i])
         IN IF current_toggle # <<>>
            THEN BlocksFrom(lines, i + 1, blocks, current_toggle,
                            Append(current_toggle_content, b))
            ELSE BlocksFrom(lines, i + 1, Append(blocks, b), current_toggle,
                            current_toggle_content)

\* append_markdown(notion, page_id, md_text): the blocks it hands to
\* notion.blocks.children.append (<<>>: no request is made)
append_markdown(md) == BlocksFrom(SplitLines(md), 1, <<>>, <<>>, <<>>)

\* append_audio_section(notion, page_id, audio_blocks): the blocks it hands to
\* notion.blocks.children.append; audio_blocks is a sequence of [title, url],
\* url None when the section has no audio
RECURSIVE AudioEntries(_)
AudioEntries(audio) ==
    IF audio = <<>> THEN <<>>
    ELSE (IF Head(audio).url \in {None, ""} THEN <<>>
          ELSE << NotionBlock("heading_3", <<Seg(Head(audio).title, FALSE)>>, <<>>),
                  NotionBlock("audio", <<Seg(Head(audio).url, FALSE)>>, <<>>) >>)
         \o AudioEntries(Tail(audio))
append_audio_section(audio) ==
    IF audio = <<>> THEN <<>>
    ELSE << NotionBlock("heading_2", <<Seg(":headphones: Your Daily Audio Briefing", FALSE)>>, <<>>),
            NotionBlock("paragraph", <<Seg("Listen to your personalized morning update! :sunrise:", FALSE)>>, <<>>) >>
         \o AudioEntries(audio)
         \o << NotionBlock("divider", <<>>, <<>>) >>

\* "\n".join(lines)
RECURSIVE JoinLines(_)
JoinLines(lines) ==
    IF lines = <<>> THEN <<>>
    ELSE IF Len(lines) = 1 THEN lines[1]
    ELSE lines[1] \o <<"\n">> \o JoinLines(Tail(lines))

\* Lines a text is made of: headings (one with an empty title), bullets,
\* paragraphs, an empty line, a line of blanks and an indented dash
MdLines ==
    { <<"#", "#", " ", "A", "I">>, <<"#", "#", " ">>, <<"-", " ", "*", "*", "A", "I", "*", "*", " ", "u", "p">>, <<"-", " ", "b">>, <<"G", "o", "o", "d", " ", "m", "o", "r", "n", "i", "n", "g">>, <<"c">>,
      <<>>, <<" ", " ">>, <<" ", "-", " ", "x">>, <<"c", "\r", "-", " ", "b", "\\xa0">> }
RECURSIVE LinesUpTo(_)
LinesUpTo(n) ==
    IF n = 0 THEN { <<>> }
    ELSE LinesUpTo(n - 1)
         \cup { Append(ls, l) : ls \in { x \in LinesUpTo(n - 1) : Len(x) = n - 1 }, l \in MdLines }
MdTexts == { JoinLines(ls) : ls \in LinesUpTo(MaxLines) }

\* A block the page held before the run
OldBlock == NotionBlock("paragraph", <<Seg(<<"o", "l", "d">>, FALSE)>>, <<>>)
Stored(run, page, op, blocks) ==
    [run |-> run, title |-> page.title, page |-> page.page_id, op |-> op, blocks |-> blocks]

\* notion.blocks.children.append(block_id=page_id, children=blocks) when blocks
\* is not empty. What the request does to the stored page is the service's
\* side, taken from the publisher contract of the specification (section 4.5,
\* "append operation is additive"): it adds the blocks after the page's
\* content, or fails and leaves the page as it was
AppendRequest(op, blocks, ok) ==
    IF blocks # <<>> /\ ok
    THEN /\ page_content' = [page_content EXCEPT ![a_page.page_id] = @ \o blocks]
         /\ a_log' = Append(a_log, Stored(a_run, a_page, op, blocks))
    ELSE UNCHANGED <<page_content, a_log>>

InitMarkdown ==
    /\ a_pc = "call" /\ a_run = 1
    /\ a_page = [page_id |-> 1, title |-> "2025-09-22"]
    /\ md_text \in MdTexts
    /\ n_pc = "idle" /\ n_pages = <<Page(1, "2025-09-22")>> /\ n_calls = <<>>
    /\ n_results = <<>>
    /\ \/ page_content = << <<>> >> /\ a_log = <<>>
       \/ /\ page_content = << <<OldBlock>> >>
          /\ a_log = <<Stored(0, a_page, "before", <<OldBlock>>)>>
    /\ IdleFetch /\ IdleScore /\ IdleSumm /\ IdleClean /\ IdleIntro /\ IdleMain

\* one call of append_markdown
AppendMd(ok) ==
    /\ a_pc = "call"
    /\ append_markdown(md_text) = <<>> => ok
    /\ AppendRequest("markdown", append_markdown(md_text), ok)
    /\ a_pc' = IF ok THEN "done" ELSE "raised"
    /\ UNCHANGED <<a_run, a_page, md_text, n_pc, n_pages, n_calls, n_results>>
    /\ UNCHANGED <<fetchVars, scoreVars, summVars, cleanVars, introVars, mainVars>>

NextMarkdown == \E ok \in BOOLEAN : AppendMd(ok)

SpecMarkdown == InitMarkdown /\ [][NextMarkdown]_vars

(***************************************************************************)
(* The publishing step of main (src/app/main.py, step 4) over several runs *)
(* on one collection: find_or_create_daily_page, append_audio_section,     *)
(* append_markdown.  A failure ends the run (sys.exit(1)).                 *)
(***************************************************************************)
\* full_md of a run: a section, the intro with its text, the intro without
RunBodies ==
    { JoinLines(<<<<"#", "#", " ", "A", "I">>, <<"-", " ", "b">>>>),
      JoinLines(<<<<"#", "#", " ", "M", "o", "r", "n", "i", "n", "g", " ", "B", "r", "i", "e", "f", "i", "n", "g">>, <<>>, <<"G", "o", "o", "d", " ", "m", "o", "r", "n", "i", "n", "g">>>>),
      JoinLines(<<<<"#", "#", " ", "M", "o", "r", "n", "i", "n", "g", " ", "B", "r", "i", "e", "f", "i", "n", "g">>, <<>>, <<>>>>) }

\* audio_blocks of a run
AudioLists ==
    { <<>>,
      <<[title |-> "Morning Intro", url |-> "intro.mp3"]>>,
      <<[title |-> "Ai - Section Audio", url |-> "ai.mp3"], [title |-> "Bbc", url |-> None]>> }

InitPublish ==
    /\ a_pc = "find" /\ a_run = 1 /\ a_page = [page_id |-> 0, title |-> ""]
    /\ md_text = <<>>
    /\ n_pc = "idle" /\ n_calls = <<>> /\ n_results = <<>>
    /\ \/ n_pages = <<>> /\ page_content = <<>> /\ a_log = <<>>
       \/ /\ n_pages = <<Page(1, "2025-09-22")>>
          /\ page_content = << <<OldBlock>> >>
          /\ a_log = <<Stored(0, [page_id |-> 1, title |-> "2025-09-22"], "before", <<OldBlock>>)>>
    /\ IdleFetch /\ IdleScore /\ IdleSumm /\ IdleClean /\ IdleIntro /\ IdleMain

\* page = find_or_create_daily_page(notion, daily_db_id, date_str)
RunFind(title, fault) ==
    /\ a_pc = "find" /\ a_run <= MaxRuns
    /\ LET r == find_or_create_daily_page(n_pages, title, fault)
       IN /\ n_pages' = r.pages
          /\ n_calls' = n_calls \o r.calls
          /\ n_results' = Append(n_results, [title |-> title, ret |-> r.ret])
          /\ page_content' = IF Len(r.pages) > Len(n_pages)
                             THEN Append(page_content, <<>>) ELSE page_content
          /\ IF r.ret.kind = "raise"
             THEN /\ a_run' = a_run + 1 /\ a_pc' = "find"
                  /\ a_page' = [page_id |-> 0, title |-> ""]
             ELSE /\ a_page' = [page_id |-> r.ret.page_id, title |-> title]
                  /\ a_pc' = "audio" /\ UNCHANGED a_run
    /\ UNCHANGED <<md_text, a_log, n_pc>>
    /\ UNCHANGED <<fetchVars, scoreVars, summVars, cleanVars, introVars, mainVars>>

\* append_audio_section(notion, page_id, audio_blocks)
RunAudio(audio, ok) ==
    /\ a_pc = "audio"
    /\ append_audio_section(audio) = <<>> => ok
    /\ AppendRequest("audio", append_audio_section(audio), ok)
    /\ IF ok THEN a_pc' = "markdown" /\ UNCHANGED a_run
       ELSE a_pc' = "find" /\ a_run' = a_run + 1
    /\ UNCHANGED <<a_page, md_text, n_pc, n_pages, n_calls, n_results>>
    /\ UNCHANGED <<fetchVars, scoreVars, summVars, cleanVars, introVars, mainVars>>

\* append_markdown as it would be if it wrote the page anew
RunMarkdown_replacing(md, ok) ==
    /\ a_pc = "markdown"
    /\ append_markdown(md) = <<>> => ok
    /\ md_text' = md
    /\ IF append_markdown(md) # <<>> /\ ok
       THEN /\ page_content' = [page_content EXCEPT ![a_page.page_id] = append_markdown(md)]
            /\ a_log' = Append(a_log, Stored(a_run, a_page, "markdown", append_markdown(md)))
       ELSE UNCHANGED <<page_content, a_log>>
    /\ a_pc' = "find" /\ a_run' = a_run + 1
    /\ UNCHANGED <<a_page, n_pc, n_pages, n_calls, n_results>>
    /\ UNCHANGED <<fetchVars, scoreVars, summVars, cleanVars, introVars, mainVars>>

\* append_markdown(notion, page_id, full_md); the run ends after it, whether
\* it raised or not (the comment that follows adds no block)
RunMarkdown(md, ok) ==
    /\ a_pc = "markdown"
    /\ append_markdown(md) = <<>> => ok
    /\ md_text' = md
    /\ AppendRequest("markdown", append_markdown(md), ok)
    /\ a_pc' = "find" /\ a_run' = a_run + 1
    /\ UNCHANGED <<a_page, n_pc, n_pages, n_calls, n_results>>
    /\ UNCHANGED <<fetchVars, scoreVars, summVars, cleanVars, introVars, mainVars>>

NextPublish ==
    \/ \E title \in Titles, fault \in Faults : RunFind(title, fault)
    \/ \E audio \in AudioLists, ok \in BOOLEAN : RunAudio(audio, ok)
    \/ \E md \in RunBodies, ok \in BOOLEAN : RunMarkdown(md, ok)

SpecPublish == InitPublish /\ [][NextPublish]_vars

(***************************************************************************)
(* Properties of the appends                                               *)
(***************************************************************************)
IsPrefix(a, b) == Len(a) <= Len(b) /\ SubSeq(b, 1, Len(a)) = a

\* The blocks the logged requests stored on page p, in request order
RECURSIVE LogBlocks(_, _)
LogBlocks(log, p) ==
    IF log = <<>> THEN <<>>
    ELSE (IF Head(log).page = p THEN Head(log).blocks ELSE <<>>) \o LogBlocks(Tail(log), p)

\* C24: every step leaves each page's earlier blocks in place and only adds
\* after them; a page holds exactly what the append requests stored on it, in
\* request order; within a run the audio section is stored before the text
\* body and runs store in their order; runs with the same title store on one
\* and the same page.
C24_AppendAdditive ==
    /\ [][/\ Len(page_content') >= Len(page_content)
          /\ \A p \in 1..Len(page_content) : IsPrefix(page_content[p], page_content'[p])]_vars
    /\ [](/\ Len(page_content) = Len(n_pages)
          /\ \A p \in 1..Len(page_content) : page_content[p] = LogBlocks(a_log, p))
    /\ [](\A j, k \in 1..Len(a_log) :
            /\ j < k =>
                  /\ a_log[j].run <= a_log[k].run
                  /\ a_log[j].run = a_log[k].run =>
                        a_log[j].op = "audio" /\ a_log[k].op = "markdown"
            /\ a_log[j].title = a_log[k].title => a_log[j].page = a_log[k].page)

\* C24 witness: two runs with the same title on a page that held a block:
\* the page holds the old block, then the audio section and text body of the
\* first run, then those of the second.
C24_Witness ==
    /\ a_pc = "find" /\ a_run = 3 /\ Len(a_log) = 5
    /\ \A k \in 1..5 : a_log[k].page = 1 /\ a_log[k].title = "2025-09-22"
    /\ a_log[2].blocks # a_log[4].blocks /\ a_log[3].blocks # a_log[5].blocks
    /\ page_content[1] = <<OldBlock>> \o a_log[2].blocks \o a_log[3].blocks
                            \o a_log[4].blocks \o a_log[5].blocks

\* What a sequence of blocks shows of the lines: per block its type and
\* whether it is the child of a toggle, each toggle followed by its children
RECURSIVE Shape(_)
Shape(blocks) ==
    IF blocks = <<>> THEN <<>>
    ELSE <<[type |-> Head(blocks).type, child |-> FALSE]>>
         \o [i \in 1..Len(Head(blocks).children) |->
                [type |-> Head(blocks).children[i].type, child |-> TRUE]]
         \o Shape(Tail(blocks))

\* What the lines call for: per line that is not blank, a toggle for a
\* heading, else a bulleted item or a paragraph, a child once a heading
\* was seen
RECURSIVE LinesShape(_, _, _)
LinesShape(lines, i, seen) ==
    IF i > Len(lines) THEN <<>>
    ELSE IF IsHeadingLine(lines[i])
    THEN <<[type |-> "toggle", child |-> FALSE]>> \o LinesShape(lines, i + 1, TRUE)
    ELSE IF Strip(lines[i]) = <<>> THEN LinesShape(lines, i + 1, seen)
    ELSE <<[type |-> IF IsBulletLine(lines[i]) THEN "bulleted_list_item" ELSE "paragraph",
            child |-> seen]>>
         \o LinesShape(lines, i + 1, seen)

\* C30 as claimed: append_markdown loses no content: the blocks it appends
\* are, in input order, one block per non-blank line of the text, a toggle
\* for each heading line (also one no content line follows), a bulleted item
\* or paragraph for any other, top-level before the first heading and a
\* child of the latest heading after it.
C30_NoLineLost ==
    a_pc = "done" =>
        Shape(LogBlocks(SelectSeq(a_log, LAMBDA e : e.run = 1), 1))
            = LinesShape(SplitLines(md_text), 1, FALSE)

====
